---- MODULE Spec2Model ----
(***************************************************************************)
(* Recovery orchestration of the EIP-7702 wallet demo.                     *)
(*                                                                         *)
(* The model holds the PasskeyVerification component (its React state, the *)
(* handleVerify and handleRecover handlers, one step per await), the       *)
(* RecoveryModal in its two source versions, the page that owns the        *)
(* disruption flags, and the ledger the handlers read and the relayer      *)
(* writes.  A handler run is a record in a run slot; what a run does       *)
(* between two awaits is one action, since the handlers run on one thread. *)
(***************************************************************************)
EXTENDS Integers, Sequences, FiniteSets, TLC

\* ------------------------------------------------------------- bounds
MaxRuns == 2            \* run slots (handler runs in flight, or browser sessions)
MaxNonce == 2           \* cap of the nonce tracker's counter
MaxDisruptions == 1     \* external overwrites of the account's state
MaxStarts == 2          \* handler runs started per session
MaxUpgrades == 2        \* invocations of the upgrade
MaxBytes == 5           \* length of a bytecode handed to the classification

Runs == 1..MaxRuns
Sessions == 1..MaxRuns

\* ---------------------------------------------------------- constants
EIP7702PROXY_TEMPLATE_ADDRESS == "proxyTemplate"
NEW_IMPLEMENTATION_ADDRESS == "newImplementation"
FOREIGN_1967_IMPLEMENTATION == "foreignImplementation"
VALIDATOR_ADDRESS == "validator"
FOREIGN_DELEGATE == "foreignDelegate"
smartWalletAddress == "smartWallet"
odysseyTestnet == "odysseyTestnet"
localAnvil == "localAnvil"
\* The useAnvil prop's default.
useAnvil == FALSE
chain == IF useAnvil THEN localAnvil ELSE odysseyTestnet

VARIABLES
    \* the ledger
    code,               \* delegation designation of the account: "empty", or the delegate
    slot,               \* address in the ERC-1967 implementation slot
    nextOwnerIndex,     \* the account's owner counter
    trackerNonce,       \* NonceTracker.nonces(account)
    tx,                 \* per run slot: the relayer's transaction of that run
    disruptions,        \* external overwrites so far
    acceptedAt,         \* history: accepted setImplementation transactions per bound nonce
    \* the page (parent of PasskeyVerification)
    page,               \* per session: what the page last saw of the account
    \* PasskeyVerification and RecoveryModal, per session
    modalVersion,       \* which RecoveryModal source the build holds
    verifying, steps, isVerified, showRecoveryModal, isRecovering,
    \* the handler runs
    sessOf,             \* run slot -> session
    starts,             \* per session: handler runs started so far
    run,
    \* the initial upgrade
    upgradePath,        \* "component" (WalletManager) or "script" (upgrade-wallet.ts)
    upgradeUseAnvil,    \* the useAnvil prop of WalletManager
    eoa,                \* the EOA on the chain the relayer submits to
    upTxs,              \* the transactions the upgrade runs submitted, in order
    up,                 \* the upgrade run: position, locals, history
    wm,                 \* WalletManager's state; for the script, its process
    keyPlaces,          \* history: where the EOA's private key has been
    \* the pure functions
    probe               \* a function under test: its name, its input, its result

upgradeVars == <<upgradePath, upgradeUseAnvil, eoa, upTxs, up, wm, keyPlaces>>

recoveryVars == <<code, slot, nextOwnerIndex, trackerNonce, tx, disruptions, acceptedAt,
                  page, modalVersion, verifying, steps, isVerified, showRecoveryModal,
                  isRecovering, sessOf, starts, run>>

vars == <<recoveryVars, upgradeVars, probe>>

ledgerVars == <<code, slot, nextOwnerIndex, trackerNonce, disruptions, acceptedAt>>
uiVars == <<verifying, steps, isVerified, showRecoveryModal, isRecovering>>

\* ------------------------------------------------------ state inspector
\* A bytecode is a sequence of bytes; the 20 bytes of an address are one element
\* of it.  "0x", the empty bytecode, is the empty sequence.  Hex text has a
\* case: the address constants are written in mixed case, a node answers in
\* lower case.
MAGIC_PREFIX == <<"ef", "01", "00">>

toLowerCase(hex) ==
    [k \in DOMAIN hex |->
        CASE hex[k] \in {"EF", "Ef"} -> "ef"
          [] hex[k] \in {"proxyTemplate", "PROXYTEMPLATE"} -> "proxytemplate"
          [] hex[k] = "foreignDelegate" -> "foreigndelegate"
          [] hex[k] \in {"newImplementation", "NEWIMPLEMENTATION"} -> "newimplementation"
          [] hex[k] = "foreignImplementation" -> "foreignimplementation"
          [] OTHER -> hex[k]]

\* getExpectedBytecode(false): the delegation designator of the proxy template.
getExpectedBytecode == MAGIC_PREFIX \o <<EIP7702PROXY_TEMPLATE_ADDRESS>>

\* getCode of an account whose delegation designation is c.
getCode(c) == IF c = "empty" THEN <<>> ELSE toLowerCase(MAGIC_PREFIX \o <<c>>)

\* A variant of the comparison that takes any bytecode that begins with the
\* magic prefix.
isCorrectBytecode_PrefixOnly(bytecode) ==
    /\ Len(bytecode) >= 3
    /\ toLowerCase(SubSeq(bytecode, 1, 3)) = toLowerCase(MAGIC_PREFIX)

\* The delegate is correct when the bytecode is the expected one, whatever the
\* case of the hex text.
isCorrectBytecode(bytecode) == toLowerCase(bytecode) = toLowerCase(getExpectedBytecode)

delegateIncorrect(bytecode) == bytecode = <<>> \/ ~isCorrectBytecode(bytecode)

\* getStorageAt of the implementation slot holding address a: a 32-byte word,
\* its upper 12 bytes and its low 20 bytes.
getStorageAt(a) == <<"000000000000000000000000", a>>

\* A variant of the formatting that takes the head of the word.
implementationAddressOf_Head(slotValue) == IF slotValue = <<>> THEN "0x" ELSE slotValue[1]

\* slotValue ? `0x${slotValue.slice(-40)}` : "0x": the low 20 bytes as an address.
implementationAddressOf(slotValue) == IF slotValue = <<>> THEN "0x" ELSE slotValue[Len(slotValue)]

implementationIncorrect(slotValue) ==
    toLowerCase(<<slotValue>>) # toLowerCase(<<NEW_IMPLEMENTATION_ADDRESS>>)

ownershipDisruptedOf(ownerIndex) == ownerIndex = 0

\* The props the page hands to PasskeyVerification.
isDelegateDisrupted(s) == delegateIncorrect(page[s].bytecode)
isImplementationDisrupted(s) == implementationIncorrect(page[s].slotValue)
isOwnershipDisrupted(s) == ownershipDisruptedOf(page[s].ownerIndex)

IssueVector(s) ==
    [d |-> isDelegateDisrupted(s), i |-> isImplementationDisrupted(s),
     o |-> isOwnershipDisrupted(s)]

\* The page's own inspection of the account.
ParentInspect(s) ==
    /\ page[s] # [bytecode |-> getCode(code), slotValue |-> slot, ownerIndex |-> nextOwnerIndex]
    /\ page' = [page EXCEPT ![s] =
                  [bytecode |-> getCode(code), slotValue |-> slot, ownerIndex |-> nextOwnerIndex]]
    /\ UNCHANGED <<ledgerVars, tx, modalVersion, uiVars, sessOf, upgradeVars, probe, starts, run>>

\* onStateChange(code, implementationAddress), as checkState calls it.
onStateChange(pg, bytecode, implementationAddress) ==
    [pg EXCEPT !.bytecode = bytecode, !.slotValue = implementationAddress]

\* --------------------------------------------------------- the step log
NoTx == "none"

NewStep(status, complete, err, phase, r) ==
    [status |-> status, isComplete |-> complete, error |-> err, txHash |-> NoTx,
     phase |-> phase, by |-> r, upd |-> r]

addStep(current, step) == Append(current, step)

\* updateStep(index, updates): { ...step, ...updates } on the entry at index, if any.
updateStep(current, index, updates) ==
    [i \in DOMAIN current |->
        IF i = index + 1
        THEN [f \in DOMAIN current[i] |->
                 IF f \in DOMAIN updates THEN updates[f] ELSE current[i][f]]
        ELSE current[i]]

\* ------------------------------------------------------------ the runs
NoCommit ==
    [chainId |-> "none", proxy |-> "none", nonce |-> 0, currentImplementation |-> "none",
     newImplementation |-> "none", callData |-> "none", validator |-> "none"]

NoVec == [d |-> FALSE, i |-> FALSE, o |-> FALSE]

IdleRun ==
    [kind |-> "none", pc |-> "idle", capD |-> FALSE, capI |-> FALSE, vec |-> NoVec,
     currentImplementation |-> "none", nonce |-> 0, ourOwnerIndex |-> 0,
     commit |-> NoCommit, depositLow |-> FALSE, log |-> <<>>]

NoTransaction == [st |-> "none", op |-> "none", commit |-> NoCommit, ownerIndex |-> 0]

\* The chain the relayer's wallet client is bound to.
relayerChain == odysseyTestnet

Finished(r) == run[r].pc \in {"idle", "done", "failed"}
InFlight(r) == ~Finished(r)
FreeSlot(r) == Finished(r) /\ tx[r].st # "pending"

\* The slot a new run of session s takes: the lowest free one.
SlotFor(s, r) ==
    /\ starts[s] < MaxStarts
    /\ sessOf[r] = s
    /\ FreeSlot(r)
    /\ \A q \in Runs : (sessOf[q] = s /\ FreeSlot(q)) => r <= q

\* The type descriptor of the commitment: its fields, in order.
IMPLEMENTATION_SET_TYPEHASH ==
    <<"chainId", "proxy", "nonce", "currentImplementation", "newImplementation", "callData", "validator">>

\* A variant of the encoding that leaves the last field of the descriptor out.
hashStruct_NoValidator(commitment) ==
    [k \in 1..(Len(IMPLEMENTATION_SET_TYPEHASH) - 1) |-> commitment[IMPLEMENTATION_SET_TYPEHASH[k]]]

\* The digest of a commitment: the hash of its fields' values in the
\* descriptor's order, a hash being one-to-one on what it is given.
hashStruct(commitment) ==
    [k \in 1..Len(IMPLEMENTATION_SET_TYPEHASH) |-> commitment[IMPLEMENTATION_SET_TYPEHASH[k]]]

\* createSetImplementationHash(proxy, newImplementation, callData, nonce,
\* currentImplementation, allowCrossChainReplay, chainId): the commitment the
\* digest binds, in the type descriptor's field order.
createSetImplementationHash(proxy, newImplementation, callData, nonce, currentImplementation, allowCrossChainReplay, chainId) ==
    [chainId |-> IF allowCrossChainReplay THEN "any" ELSE chainId,
     proxy |-> proxy, nonce |-> nonce,
     currentImplementation |-> currentImplementation,
     newImplementation |-> newImplementation, callData |-> callData,
     validator |-> VALIDATOR_ADDRESS]

\* A variant of the acceptance rule that takes a commitment of the nonce
\* before the current one as well.
SignatureAccepted_PreviousNonce(t) ==
    /\ code = EIP7702PROXY_TEMPLATE_ADDRESS
    /\ t.commit.currentImplementation = slot
    /\ t.commit.chainId = relayerChain
    /\ t.commit.nonce \in {trackerNonce, trackerNonce - 1}
    /\ t.ownerIndex >= 0
    /\ t.ownerIndex = nextOwnerIndex - 1

\* A variant of the acceptance rule whose commitment leaves the nonce out.
SignatureAccepted_NoNonce(t) ==
    /\ code = EIP7702PROXY_TEMPLATE_ADDRESS
    /\ t.commit.currentImplementation = slot
    /\ t.commit.chainId = relayerChain
    /\ t.ownerIndex >= 0
    /\ t.ownerIndex = nextOwnerIndex - 1

\* ------------------------------------------------------------ the ledger
\* What the proxy's setImplementation accepts: a signature by the account's
\* current owner over the commitment of the ledger's own current values.
SignatureAccepted(t) ==
    /\ code = EIP7702PROXY_TEMPLATE_ADDRESS
    /\ t.commit = createSetImplementationHash(smartWalletAddress, NEW_IMPLEMENTATION_ADDRESS, "0x", trackerNonce, slot, FALSE, relayerChain)
    /\ t.ownerIndex >= 0
    /\ t.ownerIndex = nextOwnerIndex - 1

\* The receipt of the transaction of run slot r.  Its status (success,
\* reverted) is in nothing the handlers keep: waitForTransaction drops it.
\* Nobody waits for a receipt once the run that submitted has ended.
Receipt(r) ==
    IF Finished(r) THEN NoTransaction ELSE [NoTransaction EXCEPT !.st = "mined", !.op = tx[r].op]

\* The ledger executes the transaction of run slot r and issues its receipt.
Mine(r) ==
    /\ tx[r].st = "pending"
    /\ \/ /\ tx[r].op \in {"fund", "deposit", "userOp", "retrieve"}
          /\ tx' = [tx EXCEPT ![r] = Receipt(r)]
          /\ UNCHANGED <<code, slot, trackerNonce, acceptedAt>>
       \/ /\ tx[r].op = "resetDelegate"
          /\ \E ok \in BOOLEAN :
                /\ code' = IF ok THEN EIP7702PROXY_TEMPLATE_ADDRESS ELSE code
                /\ tx' = [tx EXCEPT ![r] = Receipt(r)]
          /\ UNCHANGED <<slot, trackerNonce, acceptedAt>>
       \/ /\ tx[r].op = "resetImplementation"
          /\ SignatureAccepted(tx[r])
          /\ trackerNonce < MaxNonce
          /\ slot' = NEW_IMPLEMENTATION_ADDRESS
          /\ trackerNonce' = trackerNonce + 1
          /\ acceptedAt' = [acceptedAt EXCEPT ![tx[r].commit.nonce] = @ + 1]
          /\ tx' = [tx EXCEPT ![r] = Receipt(r)]
          /\ UNCHANGED code
       \/ /\ tx[r].op = "resetImplementation"
          /\ ~SignatureAccepted(tx[r])
          /\ tx' = [tx EXCEPT ![r] = Receipt(r)]
          /\ UNCHANGED <<code, slot, trackerNonce, acceptedAt>>
    /\ UNCHANGED <<nextOwnerIndex, disruptions, page, modalVersion, uiVars, sessOf, upgradeVars, probe, starts, run>>

\* An external overwrite of the account (the demo's disruption buttons): the
\* delegate, the implementation slot, the owner counter, or several at once.
Disrupt(d, i, o) ==
    /\ disruptions < MaxDisruptions
    /\ d \/ i \/ o
    /\ d => code # FOREIGN_DELEGATE
    /\ i => slot # FOREIGN_1967_IMPLEMENTATION
    /\ o => nextOwnerIndex # 0
    /\ code' = IF d THEN FOREIGN_DELEGATE ELSE code
    /\ slot' = IF i THEN FOREIGN_1967_IMPLEMENTATION ELSE slot
    /\ nextOwnerIndex' = IF o THEN 0 ELSE nextOwnerIndex
    /\ disruptions' = disruptions + 1
    /\ UNCHANGED <<trackerNonce, acceptedAt, tx, page, modalVersion, uiVars, sessOf, upgradeVars, probe, starts, run>>

\* ------------------------------------------------------- RecoveryModal
\* The ownershipDisrupted prop as PasskeyVerification passes it: it passes none.
modalOwnershipDisrupted == FALSE

isUnrecoverable(s) ==
    /\ modalVersion = "ownershipAware"
    /\ isDelegateDisrupted(s) /\ modalOwnershipDisrupted /\ ~isImplementationDisrupted(s)

\* The "Restore Account" button is rendered and enabled.
RestoreOffered(s) ==
    /\ showRecoveryModal[s]
    /\ \/ modalVersion = "plain"
       \/ modalVersion = "ownershipAware" /\ ~isUnrecoverable(s) /\ ~isRecovering[s]

\* The modal's "Cancel" / "Close" button: onClose.
ModalClose(s) ==
    /\ showRecoveryModal[s]
    /\ showRecoveryModal' = [showRecoveryModal EXCEPT ![s] = FALSE]
    /\ UNCHANGED <<ledgerVars, tx, page, modalVersion, verifying, steps, isVerified, isRecovering, sessOf, upgradeVars, probe, starts, run>>

\* ------------------------------------------------------- handleRecover
\* A run that ended: its locals are gone, its record keeps what it did.
Ended(rr, pc, event) ==
    [IdleRun EXCEPT !.kind = rr.kind, !.pc = pc, !.capD = rr.capD, !.capI = rr.capI,
                    !.vec = rr.vec, !.log = Append(rr.log, event)]

\* A variant of the end of a stretch without the finally block: a run that lands
\* in the catch block leaves the busy flag set.
RecoverSettle_NoFinally(r, s, current, rr, pg, ui, outcome) ==
    LET final == CASE outcome = "failed" -> Append(current, NewStep("Recovery failed", TRUE, TRUE, "failed", r))
                   [] outcome = "done" -> Append(current, NewStep("Account recovered successfully", TRUE, FALSE, "final", r))
                   [] OTHER -> current
        after == CASE outcome = "failed" -> [IdleRun EXCEPT !.kind = rr.kind, !.pc = "failed", !.capD = rr.capD, !.capI = rr.capI, !.vec = rr.vec, !.log = Append(rr.log, "fail")]
                   [] outcome = "done" -> [IdleRun EXCEPT !.kind = rr.kind, !.pc = "done", !.capD = rr.capD, !.capI = rr.capI, !.vec = rr.vec, !.log = Append(rr.log, "success")]
                   [] OTHER -> rr
    IN  /\ steps' = [steps EXCEPT ![s] = final]
        /\ run' = [run EXCEPT ![r] = after]
        /\ page' = [page EXCEPT ![s] = pg]
        /\ verifying' = [verifying EXCEPT ![s] = IF outcome = "done" THEN FALSE ELSE ui.verifying]
        /\ showRecoveryModal' = [showRecoveryModal EXCEPT ![s] = IF outcome = "done" THEN FALSE ELSE ui.show]
        /\ isRecovering' = [isRecovering EXCEPT ![s] = IF outcome # "continue" THEN FALSE ELSE ui.recovering]
        /\ UNCHANGED isVerified

\* The end of one synchronous stretch of a handleRecover run: the run goes on
\* ("continue"), reports success ("done": onRecoveryComplete, the modal closed,
\* the success step) or lands in the catch block ("failed"); finally clears the
\* busy flag, and the ownership-aware modal its isRecovering.
RecoverSettle(r, s, current, rr, pg, ui, outcome) ==
    LET over == outcome # "continue"
        final == CASE outcome = "failed" -> addStep(current, NewStep("Recovery failed", TRUE, TRUE, "failed", r))
                   [] outcome = "done" -> addStep(current, NewStep("Account recovered successfully", TRUE, FALSE, "final", r))
                   [] OTHER -> current
        after == CASE outcome = "failed" -> Ended(rr, "failed", "fail")
                   [] outcome = "done" -> Ended(rr, "done", "success")
                   [] OTHER -> rr
    IN  /\ steps' = [steps EXCEPT ![s] = final]
        /\ run' = [run EXCEPT ![r] = after]
        /\ page' = [page EXCEPT ![s] = pg]
        /\ verifying' = [verifying EXCEPT ![s] = IF over THEN FALSE ELSE ui.verifying]
        /\ showRecoveryModal' = [showRecoveryModal EXCEPT ![s] = IF outcome = "done" THEN FALSE ELSE ui.show]
        /\ isRecovering' = [isRecovering EXCEPT ![s] = IF over THEN FALSE ELSE ui.recovering]
        /\ UNCHANGED isVerified

UiNow(s) == [verifying |-> verifying[s], show |-> showRecoveryModal[s], recovering |-> isRecovering[s]]

ImplementationStep(r) == NewStep("Resetting implementation to correct version...", FALSE, FALSE, "impl", r)

\* if (isImplementationDisrupted) { addStep(...); await getStorageAt } else the
\* success report.
RecoverEnterImplementation(r, s, current, rr, pg, ui) ==
    IF rr.capI
    THEN RecoverSettle(r, s, addStep(current, ImplementationStep(r)), [rr EXCEPT !.pc = "iSlot"], pg, ui, "continue")
    ELSE RecoverSettle(r, s, current, rr, pg, ui, "done")

\* A click on "Restore Account" starts handleRecover with the flags of the render
\* it was created in; the ownership-aware modal closes itself first.
handleRecover(s, r) ==
    /\ RestoreOffered(s)
    /\ SlotFor(s, r)
    /\ LET aware == modalVersion = "ownershipAware"
           ui == [verifying |-> TRUE,
                  show |-> IF aware THEN FALSE ELSE showRecoveryModal[s],
                  recovering |-> IF aware THEN TRUE ELSE isRecovering[s]]
           rr == [IdleRun EXCEPT !.kind = "recover", !.pc = "dFetch",
                                 !.capD = isDelegateDisrupted(s),
                                 !.capI = isImplementationDisrupted(s),
                                 !.vec = IssueVector(s)]
           started == <<NewStep("Starting account recovery...", FALSE, FALSE, "start", r)>>
       IN  IF rr.capD
           THEN RecoverSettle(r, s, addStep(started, NewStep("Resetting delegate to relayer...", FALSE, FALSE, "delegate", r)), rr, page[s], ui, "continue")
           ELSE RecoverEnterImplementation(r, s, started, rr, page[s], ui)
    /\ tx' = [tx EXCEPT ![r] = NoTransaction]
    /\ starts' = [starts EXCEPT ![s] = @ + 1]
    /\ UNCHANGED <<ledgerVars, modalVersion, sessOf, upgradeVars, probe>>

\* A variant of the response handling without the await on the confirmation:
\* the run goes to the inspection with the transaction still pending.
RecoverDelegateResponse_NoAwait(r) ==
    /\ run[r].kind = "recover" /\ run[r].pc = "dFetch"
    /\ LET s == sessOf[r] IN
       \/ /\ tx' = [tx EXCEPT ![r] = [NoTransaction EXCEPT !.st = "pending", !.op = "resetDelegate"]]
          /\ RecoverSettle(r, s,
                updateStep(steps[s], 1, [status |-> "Waiting for delegate reset transaction...", isComplete |-> FALSE, txHash |-> "resetDelegate", upd |-> r]),
                [run[r] EXCEPT !.pc = "dInspect", !.log = Append(@, "submitDelegate")],
                page[s], UiNow(s), "continue")
       \/ /\ UNCHANGED tx
          /\ RecoverSettle(r, s, steps[s], run[r], page[s], UiNow(s), "failed")
    /\ UNCHANGED <<ledgerVars, modalVersion, sessOf, upgradeVars, probe, starts>>

\* The relay answers the resetDelegate request: with the hash of the transaction
\* it submitted, or not ok.
RecoverDelegateResponse(r) ==
    /\ run[r].kind = "recover" /\ run[r].pc = "dFetch"
    /\ LET s == sessOf[r] IN
       \/ /\ tx' = [tx EXCEPT ![r] = [NoTransaction EXCEPT !.st = "pending", !.op = "resetDelegate"]]
          /\ RecoverSettle(r, s,
                updateStep(steps[s], 1, [status |-> "Waiting for delegate reset transaction...", isComplete |-> FALSE, txHash |-> "resetDelegate", upd |-> r]),
                [run[r] EXCEPT !.pc = "dWait", !.log = Append(@, "submitDelegate")],
                page[s], UiNow(s), "continue")
       \/ /\ UNCHANGED tx
          /\ RecoverSettle(r, s, steps[s], run[r], page[s], UiNow(s), "failed")
    /\ UNCHANGED <<ledgerVars, modalVersion, sessOf, upgradeVars, probe, starts>>

\* waitForTransaction: resolves once the receipt exists, whatever its status.
waitForTransaction(r) == tx[r].st = "mined"

\* A variant of the confirmation handling that goes on without checkState.
RecoverDelegateConfirmed_NoInspect(r) ==
    /\ run[r].kind = "recover" /\ run[r].pc = "dWait"
    /\ waitForTransaction(r)
    /\ LET s == sessOf[r] IN
       RecoverEnterImplementation(r, s,
            updateStep(steps[s], 1, [status |-> "Successfully reset delegate", isComplete |-> TRUE, txHash |-> "resetDelegate", upd |-> r]),
            [run[r] EXCEPT !.log = Append(@, "confirmDelegate")],
            page[s], UiNow(s))
    /\ tx' = [tx EXCEPT ![r] = NoTransaction]
    /\ UNCHANGED <<ledgerVars, modalVersion, sessOf, upgradeVars, probe, starts>>

RecoverDelegateConfirmed(r) ==
    /\ run[r].kind = "recover" /\ run[r].pc = "dWait"
    /\ waitForTransaction(r)
    /\ run' = [run EXCEPT ![r].pc = "dInspect", ![r].log = Append(@, "confirmDelegate")]
    /\ tx' = [tx EXCEPT ![r] = NoTransaction]
    /\ UNCHANGED <<ledgerVars, page, modalVersion, uiVars, sessOf, upgradeVars, probe, starts>>

\* A variant of checkState whose report depends on the report before it: what
\* the page already holds is reported as empty.
checkState_Alternating(pg) ==
    onStateChange(pg, IF pg.bytecode = getCode(code) THEN <<>> ELSE getCode(code), slot)

\* checkState: getCode and getStorageAt, reported to the page.
checkState(pg) == onStateChange(pg, getCode(code), implementationAddressOf(getStorageAt(slot)))

\* History: what an inspection saw of the delegate and the implementation.
InspectEvent(pg) ==
    CASE delegateIncorrect(pg.bytecode) /\ implementationIncorrect(pg.slotValue) -> "inspect:both"
      [] delegateIncorrect(pg.bytecode) -> "inspect:delegate"
      [] implementationIncorrect(pg.slotValue) -> "inspect:implementation"
      [] OTHER -> "inspect:clean"

\* A variant of the inspection after the delegate repair that goes on to the
\* implementation block whatever the flag says.
RecoverDelegateInspect_AlwaysImplementation(r) ==
    /\ run[r].kind = "recover" /\ run[r].pc = "dInspect"
    /\ LET s == sessOf[r] IN
       RecoverSettle(r, s,
            addStep(updateStep(steps[s], 1, [status |-> "Successfully reset delegate", isComplete |-> TRUE, txHash |-> "resetDelegate", upd |-> r]), ImplementationStep(r)),
            [run[r] EXCEPT !.pc = "iSlot", !.log = Append(@, InspectEvent(checkState(page[s])))],
            checkState(page[s]), UiNow(s), "continue")
    /\ UNCHANGED <<ledgerVars, tx, modalVersion, sessOf, upgradeVars, probe, starts>>

RecoverDelegateInspect(r) ==
    /\ run[r].kind = "recover" /\ run[r].pc = "dInspect"
    /\ LET s == sessOf[r] IN
       RecoverEnterImplementation(r, s,
            updateStep(steps[s], 1, [status |-> "Successfully reset delegate", isComplete |-> TRUE, txHash |-> "resetDelegate", upd |-> r]),
            [run[r] EXCEPT !.log = Append(@, InspectEvent(checkState(page[s])))],
            checkState(page[s]), UiNow(s))
    /\ UNCHANGED <<ledgerVars, tx, modalVersion, sessOf, upgradeVars, probe, starts>>

\* getStorageAt(ERC1967_IMPLEMENTATION_SLOT): the current implementation, the
\* low 20 bytes of the slot.
RecoverReadSlot(r) ==
    /\ run[r].kind = "recover" /\ run[r].pc = "iSlot"
    /\ run' = [run EXCEPT ![r].pc = "iNonce", ![r].currentImplementation = implementationAddressOf(getStorageAt(slot)),
                          ![r].log = Append(@, "readSlot")]
    /\ UNCHANGED <<ledgerVars, tx, page, modalVersion, uiVars, sessOf, upgradeVars, probe, starts>>

\* A variant of the nonce read that takes the nonce of a fresh account instead
\* of asking the tracker.
RecoverReadNonce_Fresh(r) ==
    /\ run[r].kind = "recover" /\ run[r].pc = "iNonce"
    /\ run' = [run EXCEPT ![r].pc = "iOwner", ![r].nonce = 0,
                          ![r].log = Append(@, "readNonce")]
    /\ UNCHANGED <<ledgerVars, tx, page, modalVersion, uiVars, sessOf, upgradeVars, probe, starts>>

\* readContract(NONCE_TRACKER_ADDRESS, "nonces", [smartWalletAddress]).
RecoverReadNonce(r) ==
    /\ run[r].kind = "recover" /\ run[r].pc = "iNonce"
    /\ run' = [run EXCEPT ![r].pc = "iOwner", ![r].nonce = trackerNonce,
                          ![r].log = Append(@, "readNonce")]
    /\ UNCHANGED <<ledgerVars, tx, page, modalVersion, uiVars, sessOf, upgradeVars, probe, starts>>

\* readContract(smartWalletAddress, "nextOwnerIndex"); ourOwnerIndex is it less one.
RecoverReadOwnerIndex(r) ==
    /\ run[r].kind = "recover" /\ run[r].pc = "iOwner"
    /\ run' = [run EXCEPT ![r].pc = "iAccount", ![r].ourOwnerIndex = nextOwnerIndex - 1]
    /\ UNCHANGED <<ledgerVars, tx, page, modalVersion, uiVars, sessOf, upgradeVars, probe, starts>>

\* A variant of the build that binds the successor of the nonce read.
RecoverBuild_NextNonce(r) ==
    /\ run[r].kind = "recover" /\ run[r].pc = "iAccount"
    /\ run' = [run EXCEPT ![r].pc = "iSign",
                          ![r].commit = createSetImplementationHash(smartWalletAddress, NEW_IMPLEMENTATION_ADDRESS, "0x", run[r].nonce + 1, run[r].currentImplementation, FALSE, chain),
                          ![r].log = Append(@, "build")]
    /\ UNCHANGED <<ledgerVars, tx, page, modalVersion, uiVars, sessOf, upgradeVars, probe, starts>>

\* toCoinbaseSmartAccount resolves; the commitment is built and handed to
\* signMessage.
RecoverBuild(r) ==
    /\ run[r].kind = "recover" /\ run[r].pc = "iAccount"
    /\ run' = [run EXCEPT ![r].pc = "iSign",
                          ![r].commit = createSetImplementationHash(smartWalletAddress, NEW_IMPLEMENTATION_ADDRESS, "0x", run[r].nonce, run[r].currentImplementation, FALSE, chain),
                          ![r].log = Append(@, "build")]
    /\ UNCHANGED <<ledgerVars, tx, page, modalVersion, uiVars, sessOf, upgradeVars, probe, starts>>

\* signMessage resolves; the signature goes to the relay as resetImplementation.
RecoverSign(r) ==
    /\ run[r].kind = "recover" /\ run[r].pc = "iSign"
    /\ run' = [run EXCEPT ![r].pc = "iFetch", ![r].log = Append(@, "sign")]
    /\ UNCHANGED <<ledgerVars, tx, page, modalVersion, uiVars, sessOf, upgradeVars, probe, starts>>

\* The index of the implementation step in the log, as handleRecover takes it.
stepIndex(rr) == IF rr.capD THEN 2 ELSE 1

\* A variant of the response handling that posts the same signed commitment
\* again after the relay's answer.
RecoverImplementationResponse_Resend(r) ==
    /\ run[r].kind = "recover" /\ run[r].pc = "iFetch"
    /\ Len(run[r].log) < 12
    /\ LET s == sessOf[r] IN
       /\ tx' = [tx EXCEPT ![r] = [st |-> "pending", op |-> "resetImplementation", commit |-> run[r].commit, ownerIndex |-> run[r].ourOwnerIndex]]
       /\ RecoverSettle(r, s, steps[s],
             [run[r] EXCEPT !.log = Append(@, "submitImplementation")],
             page[s], UiNow(s), "continue")
    /\ UNCHANGED <<ledgerVars, modalVersion, sessOf, upgradeVars, probe, starts>>

\* The relay answers the resetImplementation request.
RecoverImplementationResponse(r) ==
    /\ run[r].kind = "recover" /\ run[r].pc = "iFetch"
    /\ LET s == sessOf[r] IN
       \/ /\ tx' = [tx EXCEPT ![r] = [st |-> "pending", op |-> "resetImplementation", commit |-> run[r].commit, ownerIndex |-> run[r].ourOwnerIndex]]
          /\ RecoverSettle(r, s,
                updateStep(steps[s], stepIndex(run[r]), [status |-> "Waiting for implementation reset transaction...", isComplete |-> FALSE, txHash |-> "resetImplementation", upd |-> r]),
                [run[r] EXCEPT !.pc = "iWait", !.log = Append(@, "submitImplementation")],
                page[s], UiNow(s), "continue")
       \/ /\ UNCHANGED tx
          /\ RecoverSettle(r, s, steps[s], run[r], page[s], UiNow(s), "failed")
    /\ UNCHANGED <<ledgerVars, modalVersion, sessOf, upgradeVars, probe, starts>>

RecoverImplementationConfirmed(r) ==
    /\ run[r].kind = "recover" /\ run[r].pc = "iWait"
    /\ waitForTransaction(r)
    /\ run' = [run EXCEPT ![r].pc = "iInspect", ![r].log = Append(@, "confirmImplementation")]
    /\ tx' = [tx EXCEPT ![r] = NoTransaction]
    /\ UNCHANGED <<ledgerVars, page, modalVersion, uiVars, sessOf, upgradeVars, probe, starts>>

RecoverImplementationInspect(r) ==
    /\ run[r].kind = "recover" /\ run[r].pc = "iInspect"
    /\ LET s == sessOf[r] IN
       RecoverSettle(r, s,
            updateStep(steps[s], stepIndex(run[r]), [status |-> "Successfully reset implementation", isComplete |-> TRUE, txHash |-> "resetImplementation", upd |-> r]),
            [run[r] EXCEPT !.log = Append(@, InspectEvent(checkState(page[s])))],
            checkState(page[s]), UiNow(s), "done")
    /\ UNCHANGED <<ledgerVars, tx, modalVersion, sessOf, upgradeVars, probe, starts>>

\* An awaited collaborator call of handleRecover throws (a read, the signing,
\* the confirmation wait, checkState): the catch block.
RecoverAwaiting == {"dWait", "dInspect", "iSlot", "iNonce", "iOwner", "iAccount", "iSign", "iWait", "iInspect"}

\* A variant of the catch block that has the relayer undo the delegate repair
\* of the run that failed.
RecoverThrow_Compensate(r) ==
    /\ run[r].kind = "recover" /\ run[r].pc \in RecoverAwaiting
    /\ RecoverSettle(r, sessOf[r], steps[sessOf[r]], run[r], page[sessOf[r]], UiNow(sessOf[r]), "failed")
    /\ tx' = [tx EXCEPT ![r] = IF \E i \in DOMAIN run[r].log : run[r].log[i] = "confirmDelegate"
                               THEN [NoTransaction EXCEPT !.st = "pending", !.op = "undoDelegate"]
                               ELSE IF tx[r].st = "pending" THEN tx[r] ELSE NoTransaction]
    /\ UNCHANGED <<ledgerVars, modalVersion, sessOf, upgradeVars, probe, starts>>

RecoverThrow(r) ==
    /\ run[r].kind = "recover" /\ run[r].pc \in RecoverAwaiting
    /\ RecoverSettle(r, sessOf[r], steps[sessOf[r]], run[r], page[sessOf[r]], UiNow(sessOf[r]), "failed")
    /\ tx' = [tx EXCEPT ![r] = IF tx[r].st = "pending" THEN tx[r] ELSE NoTransaction]
    /\ UNCHANGED <<ledgerVars, modalVersion, sessOf, upgradeVars, probe, starts>>

\* -------------------------------------------------------- handleVerify
\* The "Transact using passkey" button: disabled while verifying, and under the
\* modal's overlay while the modal is open.
TransactOffered(s) == ~verifying[s] /\ ~showRecoveryModal[s]

\* A variant of handleVerify that resets the states before it tests the flags.
handleVerifyDisrupted_ResetFirst(s) ==
    /\ TransactOffered(s)
    /\ isDelegateDisrupted(s) \/ isImplementationDisrupted(s)
    /\ showRecoveryModal' = [showRecoveryModal EXCEPT ![s] = TRUE]
    /\ steps' = [steps EXCEPT ![s] = <<>>]
    /\ isVerified' = [isVerified EXCEPT ![s] = FALSE]
    /\ UNCHANGED <<ledgerVars, tx, page, modalVersion, verifying, isRecovering, sessOf, upgradeVars, probe, starts, run>>

\* handleVerify on a disrupted account only opens the recovery modal.
handleVerifyDisrupted(s) ==
    /\ TransactOffered(s)
    /\ isDelegateDisrupted(s) \/ isImplementationDisrupted(s)
    /\ showRecoveryModal' = [showRecoveryModal EXCEPT ![s] = TRUE]
    /\ UNCHANGED <<ledgerVars, tx, page, modalVersion, verifying, steps, isVerified, isRecovering, sessOf, upgradeVars, probe, starts, run>>

\* The end of one synchronous stretch of a handleVerify run: it goes on
\* ("continue"), ends verified ("verified": setIsVerified(true)), returns early
\* after a relayer response that is not ok ("returned"), or lands in the catch
\* block ("failed"); finally clears the busy flag.
VerifySettle(r, s, current, rr, verified, outcome) ==
    LET over == outcome # "continue"
        final == IF outcome = "failed"
                 THEN addStep(current, NewStep("Verification failed", TRUE, TRUE, "failed", r))
                 ELSE current
        after == CASE outcome = "failed" -> Ended(rr, "failed", "fail")
                   [] outcome = "returned" -> Ended(rr, "failed", "return")
                   [] outcome = "verified" -> Ended(rr, "done", "verified")
                   [] OTHER -> rr
    IN  /\ steps' = [steps EXCEPT ![s] = final]
        /\ run' = [run EXCEPT ![r] = after]
        /\ verifying' = [verifying EXCEPT ![s] = IF over THEN FALSE ELSE TRUE]
        /\ isVerified' = [isVerified EXCEPT ![s] = IF outcome = "verified" THEN TRUE ELSE verified]
        /\ UNCHANGED <<page, showRecoveryModal, isRecovering>>

\* A variant of handleVerify that keeps the steps of the attempt before.
handleVerify_KeepSteps(s, r) ==
    /\ TransactOffered(s)
    /\ ~(isDelegateDisrupted(s) \/ isImplementationDisrupted(s))
    /\ SlotFor(s, r)
    /\ VerifySettle(r, s, steps[s], [IdleRun EXCEPT !.kind = "verify", !.pc = "vDeposit", !.vec = IssueVector(s)], FALSE, "continue")
    /\ tx' = [tx EXCEPT ![r] = NoTransaction]
    /\ starts' = [starts EXCEPT ![s] = @ + 1]
    /\ UNCHANGED <<ledgerVars, modalVersion, sessOf, upgradeVars, probe>>

\* handleVerify on a healthy account: the states are reset and the EntryPoint
\* deposit is read.
handleVerify(s, r) ==
    /\ TransactOffered(s)
    /\ ~(isDelegateDisrupted(s) \/ isImplementationDisrupted(s))
    /\ SlotFor(s, r)
    /\ VerifySettle(r, s, <<>>, [IdleRun EXCEPT !.kind = "verify", !.pc = "vDeposit", !.vec = IssueVector(s)], FALSE, "continue")
    /\ tx' = [tx EXCEPT ![r] = NoTransaction]
    /\ starts' = [starts EXCEPT ![s] = @ + 1]
    /\ UNCHANGED <<ledgerVars, modalVersion, sessOf, upgradeVars, probe>>

\* Step 1 is appended and the account's balance is read.
VerifyReadDeposit(r) ==
    /\ run[r].kind = "verify" /\ run[r].pc = "vDeposit"
    /\ \E low \in BOOLEAN :
        VerifySettle(r, sessOf[r],
            addStep(steps[sessOf[r]], NewStep("Checking smart account balance...", FALSE, FALSE, "balance", r)),
            [run[r] EXCEPT !.pc = "vBalance", !.depositLow = low], isVerified[sessOf[r]], "continue")
    /\ UNCHANGED <<ledgerVars, tx, modalVersion, sessOf, upgradeVars, probe, starts>>

\* Step 1 is completed; step 2, the pre-funding, is started if the deposit is
\* below MIN_DEPOSIT, else step 3.
VerifyAfterBalance(r, s, current, rr) ==
    LET checked == updateStep(current, 0, [status |-> "Smart account balance verified", isComplete |-> TRUE, upd |-> r])
    IN  IF rr.depositLow
        THEN VerifySettle(r, s, addStep(checked, NewStep("Pre-funding smart account gas in EntryPoint...", FALSE, FALSE, "deposit", r)),
                          [rr EXCEPT !.pc = "vDepositFetch"], isVerified[s], "continue")
        ELSE VerifySettle(r, s, addStep(checked, NewStep("Creating and signing userOp to transfer 1 wei to relayer...", FALSE, FALSE, "userOp", r)),
                          [rr EXCEPT !.pc = "vOwner"], isVerified[s], "continue")

VerifyReadBalance(r) ==
    /\ run[r].kind = "verify" /\ run[r].pc = "vBalance"
    /\ LET s == sessOf[r] IN
       \/ VerifySettle(r, s, updateStep(steps[s], 0, [status |-> "Funding smart account with 1 wei...", isComplete |-> FALSE, upd |-> r]),
                       [run[r] EXCEPT !.pc = "vFundFetch"], isVerified[s], "continue")
       \/ VerifyAfterBalance(r, s, steps[s], run[r])
    /\ UNCHANGED <<ledgerVars, tx, modalVersion, sessOf, upgradeVars, probe, starts>>

\* The relay answers the fund request; a response that is not ok is thrown.
VerifyFundResponse(r) ==
    /\ run[r].kind = "verify" /\ run[r].pc = "vFundFetch"
    /\ LET s == sessOf[r] IN
       \/ /\ tx' = [tx EXCEPT ![r] = [NoTransaction EXCEPT !.st = "pending", !.op = "fund"]]
          /\ VerifySettle(r, s, steps[s], [run[r] EXCEPT !.pc = "vFundWait", !.log = Append(@, "submitFund")], isVerified[s], "continue")
       \/ /\ UNCHANGED tx
          /\ VerifySettle(r, s, steps[s], run[r], isVerified[s], "failed")
    /\ UNCHANGED <<ledgerVars, modalVersion, sessOf, upgradeVars, probe, starts>>

VerifyFundConfirmed(r) ==
    /\ run[r].kind = "verify" /\ run[r].pc = "vFundWait"
    /\ waitForTransaction(r)
    /\ VerifyAfterBalance(r, sessOf[r], steps[sessOf[r]], run[r])
    /\ tx' = [tx EXCEPT ![r] = NoTransaction]
    /\ UNCHANGED <<ledgerVars, modalVersion, sessOf, upgradeVars, probe, starts>>

\* The deposit endpoint answers: not ok is recorded on step 2 and the run returns.
VerifyDepositResponse(r) ==
    /\ run[r].kind = "verify" /\ run[r].pc = "vDepositFetch"
    /\ LET s == sessOf[r] IN
       \/ /\ tx' = [tx EXCEPT ![r] = [NoTransaction EXCEPT !.st = "pending", !.op = "deposit"]]
          /\ VerifySettle(r, s, updateStep(steps[s], 1, [status |-> "Waiting for EntryPoint pre-funding transaction...", isComplete |-> FALSE, txHash |-> "deposit", upd |-> r]),
                          [run[r] EXCEPT !.pc = "vDepositWait", !.log = Append(@, "submitDeposit")], isVerified[s], "continue")
       \/ /\ UNCHANGED tx
          /\ VerifySettle(r, s, updateStep(steps[s], 1, [error |-> TRUE, isComplete |-> TRUE, upd |-> r]), run[r], isVerified[s], "returned")
    /\ UNCHANGED <<ledgerVars, modalVersion, sessOf, upgradeVars, probe, starts>>

VerifyDepositConfirmed(r) ==
    /\ run[r].kind = "verify" /\ run[r].pc = "vDepositWait"
    /\ waitForTransaction(r)
    /\ run' = [run EXCEPT ![r].pc = "vDepositRead"]
    /\ tx' = [tx EXCEPT ![r] = NoTransaction]
    /\ UNCHANGED <<ledgerVars, page, modalVersion, uiVars, sessOf, upgradeVars, probe, starts>>

\* The new deposit is read, step 2 is completed and step 3 started.
VerifyDepositRead(r) ==
    /\ run[r].kind = "verify" /\ run[r].pc = "vDepositRead"
    /\ LET s == sessOf[r]
           funded == updateStep(steps[s], 1, [status |-> "EntryPoint pre-funding complete", isComplete |-> TRUE, txHash |-> "deposit", upd |-> r])
       IN  VerifySettle(r, s, addStep(funded, NewStep("Creating and signing userOp to transfer 1 wei to relayer...", FALSE, FALSE, "userOp", r)),
                        [run[r] EXCEPT !.pc = "vOwner"], isVerified[s], "continue")
    /\ UNCHANGED <<ledgerVars, tx, modalVersion, sessOf, upgradeVars, probe, starts>>

\* readContract(smartWalletAddress, "nextOwnerIndex"); ourOwnerIndex is it less one.
VerifyReadOwnerIndex(r) ==
    /\ run[r].kind = "verify" /\ run[r].pc = "vOwner"
    /\ run' = [run EXCEPT ![r].pc = "vSign", ![r].ourOwnerIndex = nextOwnerIndex - 1]
    /\ UNCHANGED <<ledgerVars, tx, page, modalVersion, uiVars, sessOf, upgradeVars, probe, starts>>

\* The user operation is encoded and signed; updateStep(2, ...); step 4, the
\* submission, is appended and sent.
VerifySign(r) ==
    /\ run[r].kind = "verify" /\ run[r].pc = "vSign"
    /\ LET s == sessOf[r]
           signed == updateStep(steps[s], 2, [status |-> "UserOperation created and signed", isComplete |-> TRUE, upd |-> r])
       IN  VerifySettle(r, s, addStep(signed, NewStep("Submitting userOperation...", FALSE, FALSE, "submit", r)),
                        [run[r] EXCEPT !.pc = "vSubmitFetch", !.log = Append(@, "sign")], isVerified[s], "continue")
    /\ UNCHANGED <<ledgerVars, tx, modalVersion, sessOf, upgradeVars, probe, starts>>

VerifySubmitResponse(r) ==
    /\ run[r].kind = "verify" /\ run[r].pc = "vSubmitFetch"
    /\ LET s == sessOf[r] IN
       \/ /\ tx' = [tx EXCEPT ![r] = [NoTransaction EXCEPT !.st = "pending", !.op = "userOp"]]
          /\ VerifySettle(r, s, updateStep(steps[s], 3, [status |-> "Waiting for userOperation transaction...", isComplete |-> FALSE, txHash |-> "userOp", upd |-> r]),
                          [run[r] EXCEPT !.pc = "vSubmitWait", !.log = Append(@, "submitUserOp")], isVerified[s], "continue")
       \/ /\ UNCHANGED tx
          /\ VerifySettle(r, s, updateStep(steps[s], 3, [error |-> TRUE, isComplete |-> TRUE, upd |-> r]), run[r], isVerified[s], "returned")
    /\ UNCHANGED <<ledgerVars, modalVersion, sessOf, upgradeVars, probe, starts>>

\* The user operation's transaction is confirmed; updateStep(3, ...); step 5,
\* the retrieval, is appended and sent.
VerifySubmitConfirmed(r) ==
    /\ run[r].kind = "verify" /\ run[r].pc = "vSubmitWait"
    /\ waitForTransaction(r)
    /\ LET s == sessOf[r]
           submitted == updateStep(steps[s], 3, [status |-> "UserOperation submitted successfully", isComplete |-> TRUE, txHash |-> "userOp", upd |-> r])
       IN  VerifySettle(r, s, addStep(submitted, NewStep("Retrieving unused deposit...", FALSE, FALSE, "retrieve", r)),
                        [run[r] EXCEPT !.pc = "vRetrieveFetch"], isVerified[s], "continue")
    /\ tx' = [tx EXCEPT ![r] = NoTransaction]
    /\ UNCHANGED <<ledgerVars, modalVersion, sessOf, upgradeVars, probe, starts>>

\* The retrieve endpoint answers: not ok, a withdrawal's hash, or no hash.
VerifyRetrieveResponse(r) ==
    /\ run[r].kind = "verify" /\ run[r].pc = "vRetrieveFetch"
    /\ LET s == sessOf[r] IN
       \/ /\ tx' = [tx EXCEPT ![r] = [NoTransaction EXCEPT !.st = "pending", !.op = "retrieve"]]
          /\ VerifySettle(r, s, updateStep(steps[s], 4, [status |-> "Waiting for withdrawal transaction...", isComplete |-> FALSE, txHash |-> "retrieve", upd |-> r]),
                          [run[r] EXCEPT !.pc = "vRetrieveWait", !.log = Append(@, "submitRetrieve")], isVerified[s], "continue")
       \/ /\ UNCHANGED tx
          /\ VerifySettle(r, s, updateStep(steps[s], 4, [status |-> "No unused deposit to retrieve", isComplete |-> TRUE, upd |-> r]), run[r], isVerified[s], "verified")
       \/ /\ UNCHANGED tx
          /\ VerifySettle(r, s, updateStep(steps[s], 4, [error |-> TRUE, isComplete |-> TRUE, upd |-> r]), run[r], isVerified[s], "returned")
    /\ UNCHANGED <<ledgerVars, modalVersion, sessOf, upgradeVars, probe, starts>>

VerifyRetrieveConfirmed(r) ==
    /\ run[r].kind = "verify" /\ run[r].pc = "vRetrieveWait"
    /\ waitForTransaction(r)
    /\ VerifySettle(r, sessOf[r], updateStep(steps[sessOf[r]], 4, [status |-> "Successfully retrieved unused deposit", isComplete |-> TRUE, txHash |-> "retrieve", upd |-> r]),
                    run[r], isVerified[sessOf[r]], "verified")
    /\ tx' = [tx EXCEPT ![r] = NoTransaction]
    /\ UNCHANGED <<ledgerVars, modalVersion, sessOf, upgradeVars, probe, starts>>

\* An awaited call of handleVerify throws (a read, a fetch, the signing, a
\* confirmation wait): the catch block.
VerifyAwaiting == {"vDeposit", "vBalance", "vFundWait", "vDepositFetch", "vDepositWait", "vDepositRead", "vOwner", "vSign", "vSubmitFetch", "vSubmitWait", "vRetrieveFetch", "vRetrieveWait"}

VerifyThrow(r) ==
    /\ run[r].kind = "verify" /\ run[r].pc \in VerifyAwaiting
    /\ VerifySettle(r, sessOf[r], steps[sessOf[r]], run[r], isVerified[sessOf[r]], "failed")
    /\ tx' = [tx EXCEPT ![r] = IF tx[r].st = "pending" THEN tx[r] ELSE NoTransaction]
    /\ UNCHANGED <<ledgerVars, modalVersion, sessOf, upgradeVars, probe, starts>>

\* --------------------------------------------------- the initial upgrade
baseSepolia == "baseSepolia"
relayerAddress == "relayer"
eoaAddress == "eoa"

NoSignature == [scheme |-> "none", payload |-> "none", signer |-> "none"]

\* encodeInitializeArgs: the owners array with the one owner.
encodeInitializeArgs(ownerAddress) == <<ownerAddress>>

\* createInitializeHash: the digest of the proxy address and the init args.
createInitializeHash(proxyAddress, initArgs) == [proxy |-> proxyAddress, initArgs |-> initArgs]

\* signInitialization of the wallet utilities: wallet.signMessage({ message }),
\* a personal-message signature over the digest's hex text.
signInitializationMessage(signer, message) ==
    [scheme |-> "personal_sign", payload |-> <<"text", message>>, signer |-> signer]

\* signInitialization of the script: secp256k1.sign over the digest's bytes.
signInitializationRaw(signer, hash) ==
    [scheme |-> "raw", payload |-> hash, signer |-> signer]

signInitialization(path, signer, hash) ==
    IF path = "script" THEN signInitializationRaw(signer, hash)
    ELSE signInitializationMessage(signer, hash)

\* The chain the relayer's wallet client submits to, and the chain the public
\* client reads from.
upgradeRelayerChain ==
    IF upgradePath = "script" \/ upgradeUseAnvil THEN localAnvil ELSE baseSepolia

upgradeReadChain == localAnvil

Readable == upgradeRelayerChain = upgradeReadChain

FreshEoa == [code |-> "empty", owner |-> FALSE, slot |-> "none"]

IdleUpgrade ==
    [pc |-> "idle", attempt |-> 0, authorization |-> 0, initArgs |-> <<>>,
     signature |-> NoSignature, hash |-> 0, log |-> <<>>]

IdleManager ==
    [account |-> FALSE, loading |-> FALSE, error |-> FALSE, isUpgraded |-> FALSE,
     completions |-> 0, exit |-> "none"]

\* What the validator takes as the EOA's consent to the initialization: a raw
\* signature of the EOA over the unprefixed digest.
InitSignatureAccepted(t) ==
    /\ t.signature.scheme = "raw"
    /\ t.signature.signer = eoaAddress
    /\ t.signature.payload = createInitializeHash(EIP7702PROXY_TEMPLATE_ADDRESS, t.initArgs)

\* The ledger executes the i-th upgrade transaction.  The authorization is
\* applied, or not, before the call; it stays applied when the call reverts.
MineUpgrade(i) ==
    /\ i \in DOMAIN upTxs
    /\ upTxs[i].st = "pending"
    /\ \E authOk, execOk \in BOOLEAN :
          LET t == upTxs[i]
              codeAfter == IF t.auth /\ authOk THEN EIP7702PROXY_TEMPLATE_ADDRESS ELSE eoa.code
              initOk == /\ t.init /\ execOk
                        /\ codeAfter = EIP7702PROXY_TEMPLATE_ADDRESS
                        /\ ~eoa.owner
                        /\ InitSignatureAccepted(t)
              ok == IF t.init THEN initOk ELSE execOk
          IN  IF upgradePath = "script" /\ t.attempt # up.attempt
              THEN \* a transaction of an earlier script run: another EOA
                   /\ eoa' = eoa
                   /\ upTxs' = [upTxs EXCEPT ![i].st = IF execOk THEN "success" ELSE "reverted"]
              ELSE /\ eoa' = [code |-> codeAfter, owner |-> eoa.owner \/ initOk,
                               slot |-> IF initOk THEN NEW_IMPLEMENTATION_ADDRESS ELSE eoa.slot]
                   /\ upTxs' = [upTxs EXCEPT ![i].st = IF ok THEN "success" ELSE "reverted"]
    /\ UNCHANGED <<recoveryVars, probe, upgradePath, upgradeUseAnvil, up, wm, keyPlaces>>

\* A transaction of an upgrade run: the authorization it carries (the number of
\* the run that signed it; 0 for none), and the initialize call it carries.
UpgradeTransaction(attempt, authorization, init, initArgs, signature) ==
    [attempt |-> attempt, auth |-> authorization > 0, authorization |-> authorization,
     init |-> init, initArgs |-> initArgs, signature |-> signature, st |-> "pending"]

\* ------------------------------------- WalletManager.handleUpgradeWallet
\* "Create new EOA Wallet": createEOAWallet, privateKeyToAccount.
handleCreateEOA ==
    /\ upgradePath = "component"
    /\ ~wm.account /\ ~wm.loading
    /\ wm' = [wm EXCEPT !.account = TRUE, !.loading = FALSE, !.error = FALSE]
    /\ keyPlaces' = keyPlaces \cup {"construction"}
    /\ UNCHANGED <<recoveryVars, probe, upgradePath, upgradeUseAnvil, eoa, upTxs, up>>

\* "Upgrade EOA to Smart Wallet": to the await on getRelayerWalletClient.
handleUpgradeWallet ==
    /\ upgradePath = "component"
    /\ wm.account /\ ~wm.isUpgraded /\ ~wm.loading
    /\ up.pc \in {"idle", "done", "failed"}
    /\ up.attempt < MaxUpgrades
    /\ wm' = [wm EXCEPT !.loading = TRUE, !.error = FALSE]
    /\ up' = [IdleUpgrade EXCEPT !.pc = "relayer", !.attempt = up.attempt + 1]
    /\ UNCHANGED <<recoveryVars, probe, upgradePath, upgradeUseAnvil, eoa, upTxs, keyPlaces>>

\* getRelayerWalletClient resolves; userWallet.signAuthorization is awaited.
UpgradeGotRelayer ==
    /\ upgradePath = "component" /\ up.pc = "relayer"
    /\ up' = [up EXCEPT !.pc = "auth"]
    /\ keyPlaces' = keyPlaces \cup {"signing"}
    /\ UNCHANGED <<recoveryVars, probe, upgradePath, upgradeUseAnvil, eoa, upTxs, wm>>

\* The authorization is signed; the init args and their digest are built and
\* signInitialization is awaited.
UpgradeSignedAuthorization ==
    /\ upgradePath = "component" /\ up.pc = "auth"
    /\ up' = [up EXCEPT !.pc = "sign", !.authorization = up.attempt,
                        !.initArgs = encodeInitializeArgs(relayerAddress)]
    /\ keyPlaces' = keyPlaces \cup {"signing"}
    /\ UNCHANGED <<recoveryVars, probe, upgradePath, upgradeUseAnvil, eoa, upTxs, wm>>

\* The signature is there; initData is encoded and sendTransaction is awaited.
UpgradeSignedInitialization ==
    /\ upgradePath = "component" /\ up.pc = "sign"
    /\ up' = [up EXCEPT !.pc = "send",
                        !.signature = signInitialization(upgradePath, eoaAddress, createInitializeHash(EIP7702PROXY_TEMPLATE_ADDRESS, up.initArgs))]
    /\ UNCHANGED <<recoveryVars, probe, upgradePath, upgradeUseAnvil, eoa, upTxs, wm, keyPlaces>>

\* sendTransaction resolves with the hash of the one combined transaction;
\* waitForTransactionReceipt is awaited.
UpgradeSent ==
    /\ upgradePath = "component" /\ up.pc = "send"
    /\ upTxs' = Append(upTxs, UpgradeTransaction(up.attempt, up.authorization, TRUE, up.initArgs, up.signature))
    /\ up' = [up EXCEPT !.pc = "receipt", !.hash = Len(upTxs) + 1, !.log = Append(@, "submit")]
    /\ UNCHANGED <<recoveryVars, probe, upgradePath, upgradeUseAnvil, eoa, wm, keyPlaces>>

\* The receipt arrives (on the chain the public client reads); it is logged, and
\* getCode is awaited.
UpgradeReceipt ==
    /\ upgradePath = "component" /\ up.pc = "receipt"
    /\ Readable /\ upTxs[up.hash].st # "pending"
    /\ up' = [up EXCEPT !.pc = "code", !.log = Append(@, IF upTxs[up.hash].st = "success" THEN "receipt:success" ELSE "receipt:reverted")]
    /\ UNCHANGED <<recoveryVars, probe, upgradePath, upgradeUseAnvil, eoa, upTxs, wm, keyPlaces>>

\* getCode resolves: with code at the EOA the upgrade is reported complete,
\* without it the run throws; finally clears loading.
UpgradeCode ==
    /\ upgradePath = "component" /\ up.pc = "code"
    /\ IF Readable /\ eoa.code # "empty"
       THEN /\ up' = [up EXCEPT !.pc = "done", !.log = @ \o <<"code:present", "complete">>]
            /\ wm' = [wm EXCEPT !.completions = @ + 1, !.isUpgraded = TRUE, !.loading = FALSE]
       ELSE /\ up' = [up EXCEPT !.pc = "failed", !.log = @ \o <<"code:empty", "fail">>]
            /\ wm' = [wm EXCEPT !.error = TRUE, !.loading = FALSE]
    /\ UNCHANGED <<recoveryVars, probe, upgradePath, upgradeUseAnvil, eoa, upTxs, keyPlaces>>

\* A variant of the error handling that sends the transaction again when the
\* wait for the receipt throws.
UpgradeThrow_Retry ==
    /\ upgradePath = "component"
    /\ up.pc \in {"relayer", "auth", "sign", "send", "receipt", "code"}
    /\ IF up.pc = "receipt"
       THEN /\ up' = [up EXCEPT !.pc = "send"]
            /\ wm' = wm
       ELSE /\ up' = [up EXCEPT !.pc = "failed", !.log = Append(@, "fail")]
            /\ wm' = [wm EXCEPT !.error = TRUE, !.loading = FALSE]
    /\ UNCHANGED <<recoveryVars, probe, upgradePath, upgradeUseAnvil, eoa, upTxs, keyPlaces>>

\* An awaited call of handleUpgradeWallet throws: the catch blocks set the
\* error, finally clears loading.
UpgradeThrow ==
    /\ upgradePath = "component"
    /\ up.pc \in {"relayer", "auth", "sign", "send", "receipt", "code"}
    /\ up' = [up EXCEPT !.pc = "failed", !.log = Append(@, "fail")]
    /\ wm' = [wm EXCEPT !.error = TRUE, !.loading = FALSE]
    /\ UNCHANGED <<recoveryVars, probe, upgradePath, upgradeUseAnvil, eoa, upTxs, keyPlaces>>

\* ------------------------------------------------ upgrade-wallet.ts main
ScriptExit(log) ==
    /\ up' = [up EXCEPT !.pc = "failed", !.log = log \o <<"fail">>]
    /\ wm' = [wm EXCEPT !.exit = "failed"]

\* A run of the script, to the await on signAuthorization: createRandomEOAWallet
\* keeps the private key on the account object as _privateKey, and main logs it.
main ==
    /\ upgradePath = "script"
    /\ up.pc \in {"idle", "done", "failed"}
    /\ up.attempt < MaxUpgrades
    /\ up' = [IdleUpgrade EXCEPT !.pc = "auth", !.attempt = up.attempt + 1]
    /\ wm' = [IdleManager EXCEPT !.account = TRUE]
    /\ eoa' = FreshEoa
    /\ keyPlaces' = keyPlaces \cup {"construction", "accountObject", "log", "signing"}
    /\ UNCHANGED <<recoveryVars, probe, upgradePath, upgradeUseAnvil, upTxs>>

\* The authorization is signed; the init args and their digest are built and
\* signInitialization is called with the key read from the account object.
ScriptSignedAuthorization ==
    /\ upgradePath = "script" /\ up.pc = "auth"
    /\ up' = [up EXCEPT !.pc = "sign", !.authorization = up.attempt,
                        !.initArgs = encodeInitializeArgs(relayerAddress)]
    /\ keyPlaces' = keyPlaces \cup {"signing"}
    /\ UNCHANGED <<recoveryVars, probe, upgradePath, upgradeUseAnvil, eoa, upTxs, wm>>

\* The signature is there; sendTransaction with the authorization list alone is
\* awaited.
ScriptSignedInitialization ==
    /\ upgradePath = "script" /\ up.pc = "sign"
    /\ up' = [up EXCEPT !.pc = "send",
                        !.signature = signInitialization(upgradePath, eoaAddress, createInitializeHash(EIP7702PROXY_TEMPLATE_ADDRESS, up.initArgs))]
    /\ UNCHANGED <<recoveryVars, probe, upgradePath, upgradeUseAnvil, eoa, upTxs, wm, keyPlaces>>

ScriptSent ==
    /\ upgradePath = "script" /\ up.pc = "send"
    /\ upTxs' = Append(upTxs, UpgradeTransaction(up.attempt, up.authorization, FALSE, <<>>, NoSignature))
    /\ up' = [up EXCEPT !.pc = "receipt", !.hash = Len(upTxs) + 1, !.log = Append(@, "submit")]
    /\ UNCHANGED <<recoveryVars, probe, upgradePath, upgradeUseAnvil, eoa, wm, keyPlaces>>

\* getTransactionReceipt: throws while the transaction is not mined; the status
\* of the receipt only decides a log line.  getCode is awaited.
ScriptReceipt ==
    /\ upgradePath = "script" /\ up.pc = "receipt"
    /\ IF upTxs[up.hash].st = "pending"
       THEN ScriptExit(up.log)
       ELSE /\ up' = [up EXCEPT !.pc = "code", !.log = Append(@, IF upTxs[up.hash].st = "success" THEN "receipt:success" ELSE "receipt:reverted")]
            /\ wm' = wm
    /\ UNCHANGED <<recoveryVars, probe, upgradePath, upgradeUseAnvil, eoa, upTxs, keyPlaces>>

\* getCode resolves: with code at the EOA "Wallet upgrade complete" is printed
\* and the initialize call is sent; without it the script throws.
ScriptCode ==
    /\ upgradePath = "script" /\ up.pc = "code"
    /\ IF eoa.code # "empty"
       THEN /\ up' = [up EXCEPT !.pc = "initSend", !.log = @ \o <<"code:present", "complete">>]
            /\ wm' = [wm EXCEPT !.completions = @ + 1]
       ELSE ScriptExit(up.log \o <<"code:empty">>)
    /\ UNCHANGED <<recoveryVars, probe, upgradePath, upgradeUseAnvil, eoa, upTxs, keyPlaces>>

\* writeContract(initialize, [initArgs, signature]) resolves with the hash of a
\* second transaction; waitForTransactionReceipt is awaited.
ScriptInitSent ==
    /\ upgradePath = "script" /\ up.pc = "initSend"
    /\ upTxs' = Append(upTxs, UpgradeTransaction(up.attempt, 0, TRUE, up.initArgs, up.signature))
    /\ up' = [up EXCEPT !.pc = "initReceipt", !.hash = Len(upTxs) + 1, !.log = Append(@, "initSubmit")]
    /\ UNCHANGED <<recoveryVars, probe, upgradePath, upgradeUseAnvil, eoa, wm, keyPlaces>>

ScriptInitReceipt ==
    /\ upgradePath = "script" /\ up.pc = "initReceipt"
    /\ upTxs[up.hash].st # "pending"
    /\ IF upTxs[up.hash].st = "success"
       THEN /\ up' = [up EXCEPT !.pc = "owner", !.log = Append(@, "initReceipt:success")]
            /\ wm' = wm
       ELSE ScriptExit(up.log \o <<"initReceipt:reverted">>)
    /\ UNCHANGED <<recoveryVars, probe, upgradePath, upgradeUseAnvil, eoa, upTxs, keyPlaces>>

\* readContract(isOwnerAddress, relayer).
ScriptOwner ==
    /\ upgradePath = "script" /\ up.pc = "owner"
    /\ IF eoa.owner
       THEN /\ up' = [up EXCEPT !.pc = "done", !.log = @ \o <<"owner:true", "processComplete">>]
            /\ wm' = wm
       ELSE ScriptExit(up.log \o <<"owner:false">>)
    /\ UNCHANGED <<recoveryVars, probe, upgradePath, upgradeUseAnvil, eoa, upTxs, keyPlaces>>

\* An awaited call of main throws: the catch block logs and exits with 1.
ScriptThrow ==
    /\ upgradePath = "script"
    /\ up.pc \in {"auth", "sign", "send", "receipt", "code", "initSend", "initReceipt", "owner"}
    /\ ScriptExit(up.log)
    /\ UNCHANGED <<recoveryVars, probe, upgradePath, upgradeUseAnvil, eoa, upTxs, keyPlaces>>

NoProbe == [fn |-> "none", in |-> <<>>, out |-> <<>>]

UpgradeIdle ==
    /\ upgradePath = "component"
    /\ upgradeUseAnvil = TRUE
    /\ eoa = FreshEoa
    /\ upTxs = <<>>
    /\ up = IdleUpgrade
    /\ wm = IdleManager
    /\ keyPlaces = {}

\* ------------------------------------------------------- specification
HealthyPage == [bytecode |-> getCode(EIP7702PROXY_TEMPLATE_ADDRESS), slotValue |-> NEW_IMPLEMENTATION_ADDRESS, ownerIndex |-> 1]

InitCommon ==
    /\ code = EIP7702PROXY_TEMPLATE_ADDRESS
    /\ slot = NEW_IMPLEMENTATION_ADDRESS
    /\ nextOwnerIndex = 1
    /\ trackerNonce = 0
    /\ tx = [r \in Runs |-> NoTransaction]
    /\ disruptions = 0
    /\ acceptedAt = [n \in 0..MaxNonce |-> 0]
    /\ page = [s \in Sessions |-> HealthyPage]
    /\ modalVersion \in {"plain", "ownershipAware"}
    /\ verifying = [s \in Sessions |-> FALSE]
    /\ steps = [s \in Sessions |-> <<>>]
    /\ isVerified = [s \in Sessions |-> FALSE]
    /\ showRecoveryModal = [s \in Sessions |-> FALSE]
    /\ isRecovering = [s \in Sessions |-> FALSE]
    /\ run = [r \in Runs |-> IdleRun]
    /\ starts = [s \in Sessions |-> 0]
    /\ UpgradeIdle

\* One browser session: every run slot is a run of the one mounted component.
Init ==
    /\ InitCommon
    /\ sessOf = [r \in Runs |-> 1]
    /\ probe = NoProbe

Active == {sessOf[r] : r \in Runs}

Next ==
    \/ \E r \in Runs : Mine(r)
    \/ \E d, i, o \in BOOLEAN : Disrupt(d, i, o)
    \/ \E s \in Active : ParentInspect(s)
    \/ \E s \in Active : ModalClose(s)
    \/ \E s \in Active : handleVerifyDisrupted(s)
    \/ \E s \in Active, r \in Runs : handleRecover(s, r)
    \/ \E r \in Runs : RecoverDelegateResponse(r)
    \/ \E r \in Runs : RecoverDelegateConfirmed(r)
    \/ \E r \in Runs : RecoverDelegateInspect(r)
    \/ \E r \in Runs : RecoverReadSlot(r)
    \/ \E r \in Runs : RecoverReadNonce(r)
    \/ \E r \in Runs : RecoverReadOwnerIndex(r)
    \/ \E r \in Runs : RecoverBuild(r)
    \/ \E r \in Runs : RecoverSign(r)
    \/ \E r \in Runs : RecoverImplementationResponse(r)
    \/ \E r \in Runs : RecoverImplementationConfirmed(r)
    \/ \E r \in Runs : RecoverImplementationInspect(r)
    \/ \E r \in Runs : RecoverThrow(r)
    \/ \E s \in Active, r \in Runs : handleVerify(s, r)
    \/ \E r \in Runs : VerifyReadDeposit(r)
    \/ \E r \in Runs : VerifyReadBalance(r)
    \/ \E r \in Runs : VerifyFundResponse(r)
    \/ \E r \in Runs : VerifyFundConfirmed(r)
    \/ \E r \in Runs : VerifyDepositResponse(r)
    \/ \E r \in Runs : VerifyDepositConfirmed(r)
    \/ \E r \in Runs : VerifyDepositRead(r)
    \/ \E r \in Runs : VerifyReadOwnerIndex(r)
    \/ \E r \in Runs : VerifySign(r)
    \/ \E r \in Runs : VerifySubmitResponse(r)
    \/ \E r \in Runs : VerifySubmitConfirmed(r)
    \/ \E r \in Runs : VerifyRetrieveResponse(r)
    \/ \E r \in Runs : VerifyRetrieveConfirmed(r)
    \/ \E r \in Runs : VerifyThrow(r)

Spec == Init /\ [][Next]_vars

\* Two browser sessions on the same account, each with its own mounted
\* component, after the implementation slot (and perhaps the delegate) was
\* overwritten, both pages inspected the account and both sessions opened the
\* recovery modal.
InitRace ==
    /\ code \in {EIP7702PROXY_TEMPLATE_ADDRESS, FOREIGN_DELEGATE}
    /\ slot = FOREIGN_1967_IMPLEMENTATION
    /\ nextOwnerIndex = 1
    /\ trackerNonce = 0
    /\ tx = [r \in Runs |-> NoTransaction]
    /\ disruptions = 0
    /\ acceptedAt = [n \in 0..MaxNonce |-> 0]
    /\ page = [s \in Sessions |-> onStateChange(HealthyPage, getCode(code), slot)]
    /\ modalVersion \in {"plain", "ownershipAware"}
    /\ verifying = [s \in Sessions |-> FALSE]
    /\ steps = [s \in Sessions |-> <<>>]
    /\ isVerified = [s \in Sessions |-> FALSE]
    /\ showRecoveryModal = [s \in Sessions |-> TRUE]
    /\ isRecovering = [s \in Sessions |-> FALSE]
    /\ run = [r \in Runs |-> IdleRun]
    /\ starts = [s \in Sessions |-> 0]
    /\ UpgradeIdle
    /\ sessOf = [r \in Runs |-> r]
    /\ probe = NoProbe

\* The race of the sessions' handleRecover runs: their steps, the ledger, and a
\* further overwrite of the implementation slot.
NextRace ==
    \/ \E r \in Runs : Mine(r)
    \/ Disrupt(FALSE, TRUE, FALSE)
    \/ \E s \in Active, r \in Runs : handleRecover(s, r)
    \/ \E r \in Runs : RecoverDelegateResponse(r)
    \/ \E r \in Runs : RecoverDelegateConfirmed(r)
    \/ \E r \in Runs : RecoverDelegateInspect(r)
    \/ \E r \in Runs : RecoverReadSlot(r)
    \/ \E r \in Runs : RecoverReadNonce(r)
    \/ \E r \in Runs : RecoverReadOwnerIndex(r)
    \/ \E r \in Runs : RecoverBuild(r)
    \/ \E r \in Runs : RecoverSign(r)
    \/ \E r \in Runs : RecoverImplementationResponse(r)
    \/ \E r \in Runs : RecoverImplementationConfirmed(r)
    \/ \E r \in Runs : RecoverImplementationInspect(r)
    \/ \E r \in Runs : RecoverThrow(r)

SpecRace == InitRace /\ [][NextRace]_vars

\* The initial upgrade of a fresh EOA, by the WalletManager component or by the
\* script; the recovery side stands still.
InitUpgrade ==
    /\ code = "empty"
    /\ slot = NEW_IMPLEMENTATION_ADDRESS
    /\ nextOwnerIndex = 1
    /\ trackerNonce = 0
    /\ tx = [r \in Runs |-> NoTransaction]
    /\ disruptions = 0
    /\ acceptedAt = [n \in 0..MaxNonce |-> 0]
    /\ page = [s \in Sessions |-> HealthyPage]
    /\ modalVersion = "plain"
    /\ verifying = [s \in Sessions |-> FALSE]
    /\ steps = [s \in Sessions |-> <<>>]
    /\ isVerified = [s \in Sessions |-> FALSE]
    /\ showRecoveryModal = [s \in Sessions |-> FALSE]
    /\ isRecovering = [s \in Sessions |-> FALSE]
    /\ run = [r \in Runs |-> IdleRun]
    /\ starts = [s \in Sessions |-> 0]
    /\ sessOf = [r \in Runs |-> 1]
    /\ upgradePath \in {"component", "script"}
    /\ upgradeUseAnvil \in BOOLEAN
    /\ eoa = FreshEoa
    /\ upTxs = <<>>
    /\ up = IdleUpgrade
    /\ wm = IdleManager
    /\ keyPlaces = {}
    /\ probe = NoProbe

NextUpgrade ==
    \/ \E i \in 1..(2 * MaxUpgrades) : MineUpgrade(i)
    \/ handleCreateEOA
    \/ handleUpgradeWallet
    \/ UpgradeGotRelayer
    \/ UpgradeSignedAuthorization
    \/ UpgradeSignedInitialization
    \/ UpgradeSent
    \/ UpgradeReceipt
    \/ UpgradeCode
    \/ UpgradeThrow
    \/ main
    \/ ScriptSignedAuthorization
    \/ ScriptSignedInitialization
    \/ ScriptSent
    \/ ScriptReceipt
    \/ ScriptCode
    \/ ScriptInitSent
    \/ ScriptInitReceipt
    \/ ScriptOwner
    \/ ScriptThrow

SpecUpgrade == InitUpgrade /\ [][NextUpgrade]_vars

\* The pure functions, each applied to an input drawn from a bounded set; the
\* components and the ledger stand still.
Bytes == {"ef", "EF", "01", "00", "proxytemplate", "proxyTemplate", "foreigndelegate"}

Bytecodes == UNION {[1..n -> Bytes] : n \in 0..MaxBytes}

Commitments ==
    [chainId : {odysseyTestnet, localAnvil},
     proxy : {smartWalletAddress, "otherWallet"},
     nonce : 0..1,
     currentImplementation : {FOREIGN_1967_IMPLEMENTATION, NEW_IMPLEMENTATION_ADDRESS},
     newImplementation : {NEW_IMPLEMENTATION_ADDRESS, FOREIGN_1967_IMPLEMENTATION},
     callData : {"0x", "0x01"},
     validator : {VALIDATOR_ADDRESS, "otherValidator"}]

\* The commitment handleRecover would build from the values of c.
RecoveryCommitment(c) ==
    createSetImplementationHash(c.proxy, c.newImplementation, c.callData, c.nonce, c.currentImplementation, FALSE, c.chainId)

InitPure ==
    /\ InitCommon
    /\ modalVersion = "plain"
    /\ sessOf = [r \in Runs |-> 1]
    /\ \/ probe \in [fn : {"classify"}, in : Bytecodes, out : {<<>>}]
       \/ probe \in [fn : {"hash"}, in : Commitments \X Commitments, out : {<<>>}]
       \/ probe \in [fn : {"chain"}, in : BOOLEAN, out : {<<>>}]
       \/ probe \in [fn : {"relay"},
                     in : {"fund", "upgradeEOA", "execute", "resetDelegate", "resetImplementation", "unknown"}
                            \X {"none", "body", "submit"},
                     out : {<<>>}]
       \/ probe \in [fn : {"implementation"},
                     in : {<<>>} \cup ({"000000000000000000000000", "ffffffffffffffffffffffff", "newImplementation"}
                                        \X {"newImplementation", "NEWIMPLEMENTATION", "newimplementation",
                                            "foreignImplementation", "000000000000000000000000"}),
                     out : {<<>>}]

\* AccountState classifies the bytecode it is given.
ProbeClassify ==
    /\ probe.fn = "classify" /\ probe.out = <<>>
    /\ probe' = [probe EXCEPT !.out = <<delegateIncorrect(probe.in)>>]
    /\ UNCHANGED <<recoveryVars, upgradeVars>>

\* The digests of two commitments, as given and as handleRecover builds them.
ProbeHash ==
    /\ probe.fn = "hash" /\ probe.out = <<>>
    /\ probe' = [probe EXCEPT !.out =
                    <<hashStruct(probe.in[1]), hashStruct(probe.in[2]),
                      hashStruct(RecoveryCommitment(probe.in[1])),
                      hashStruct(RecoveryCommitment(probe.in[2]))>>]
    /\ UNCHANGED <<recoveryVars, upgradeVars>>

\* The implementation address checkState reports for a slot word, and its
\* classification by AccountState.
ProbeImplementation ==
    /\ probe.fn = "implementation" /\ probe.out = <<>>
    /\ probe' = [probe EXCEPT !.out =
                    <<implementationAddressOf(probe.in),
                      implementationIncorrect(implementationAddressOf(probe.in))>>]
    /\ UNCHANGED <<recoveryVars, upgradeVars>>

\* The chains of one recovery under a value of the useAnvil prop: the chain the
\* component waits and inspects on, the chain id it binds into the commitment,
\* and the chain of the relay's wallet client.
chainFor(anvil) == IF anvil THEN localAnvil ELSE odysseyTestnet
chainIdFor(anvil) == IF anvil THEN localAnvil ELSE odysseyTestnet

ProbeChain ==
    /\ probe.fn = "chain" /\ probe.out = <<>>
    /\ probe' = [probe EXCEPT !.out =
                    <<chainFor(probe.in),
                      createSetImplementationHash(smartWalletAddress, NEW_IMPLEMENTATION_ADDRESS, "0x", 0, slot, FALSE, chainIdFor(probe.in)).chainId,
                      relayerChain>>]
    /\ UNCHANGED <<recoveryVars, upgradeVars>>

\* POST of the relay route: the operation of the request body selects the case;
\* "fund", "upgradeEOA" and "execute" each make one submission call through the
\* relayer's wallet and answer 200 with the hash, any other operation falls to
\* the default case and is answered 400, and an error thrown while the body is
\* read (fault "body") or by the submission call (fault "submit") is answered
\* 500 by the catch block.  The answer is <<status, submission calls made,
\* submission calls that returned a hash>>.
POST(operation, fault) ==
    IF fault = "body" THEN <<500, 0, 0>>
    ELSE CASE operation = "fund" -> IF fault = "submit" THEN <<500, 1, 0>> ELSE <<200, 1, 1>>
           [] operation = "upgradeEOA" -> IF fault = "submit" THEN <<500, 1, 0>> ELSE <<200, 1, 1>>
           [] operation = "execute" -> IF fault = "submit" THEN <<500, 1, 0>> ELSE <<200, 1, 1>>
           [] OTHER -> <<400, 0, 0>>

ProbeRelay ==
    /\ probe.fn = "relay" /\ probe.out = <<>>
    /\ probe' = [probe EXCEPT !.out = POST(probe.in[1], probe.in[2])]
    /\ UNCHANGED <<recoveryVars, upgradeVars>>

NextPure ==
    \/ ProbeClassify
    \/ ProbeHash
    \/ ProbeImplementation
    \/ ProbeChain
    \/ ProbeRelay

SpecPure == InitPure /\ [][NextPure]_vars

\* The runs under the scheduling the handlers have: every awaited call returns
\* or throws, and a transaction in the pool is mined.  The flow under way is the
\* recovery component's or the upgrade component's.
RunStep(r) ==
    \/ Mine(r)
    \/ RecoverDelegateResponse(r) \/ RecoverDelegateConfirmed(r) \/ RecoverDelegateInspect(r)
    \/ RecoverReadSlot(r) \/ RecoverReadNonce(r) \/ RecoverReadOwnerIndex(r)
    \/ RecoverBuild(r) \/ RecoverSign(r)
    \/ RecoverImplementationResponse(r) \/ RecoverImplementationConfirmed(r)
    \/ RecoverImplementationInspect(r) \/ RecoverThrow(r)
    \/ VerifyReadDeposit(r) \/ VerifyReadBalance(r) \/ VerifyFundResponse(r)
    \/ VerifyFundConfirmed(r) \/ VerifyDepositResponse(r) \/ VerifyDepositConfirmed(r)
    \/ VerifyDepositRead(r) \/ VerifyReadOwnerIndex(r) \/ VerifySign(r)
    \/ VerifySubmitResponse(r) \/ VerifySubmitConfirmed(r) \/ VerifyRetrieveResponse(r)
    \/ VerifyRetrieveConfirmed(r) \/ VerifyThrow(r)

UpgradeStep ==
    \/ \E i \in 1..(2 * MaxUpgrades) : MineUpgrade(i)
    \/ UpgradeGotRelayer \/ UpgradeSignedAuthorization \/ UpgradeSignedInitialization
    \/ UpgradeSent \/ UpgradeReceipt \/ UpgradeCode \/ UpgradeThrow

InitLive ==
    /\ InitCommon
    /\ sessOf = [r \in Runs |-> 1]
    /\ probe \in [fn : {"recovery", "upgrade"}, in : {<<>>}, out : {<<>>}]

NextLive ==
    \/ /\ probe.fn = "recovery"
       /\ \/ \E d, i \in BOOLEAN : Disrupt(d, i, FALSE)
          \/ \E s \in Active : ParentInspect(s)
          \/ \E s \in Active : handleVerifyDisrupted(s)
          \/ \E s \in Active, r \in Runs : handleRecover(s, r)
          \/ \E s \in Active, r \in Runs : handleVerify(s, r)
          \/ \E r \in Runs : RunStep(r)
    \/ /\ probe.fn = "upgrade"
       /\ \/ handleCreateEOA
          \/ handleUpgradeWallet
          \/ UpgradeStep

SpecLive ==
    /\ InitLive
    /\ [][NextLive]_vars
    /\ \A r \in Runs : WF_vars(RunStep(r))
    /\ WF_vars(UpgradeStep)

\* ------------------------------------------------------------- claims
InspectEvents == {"inspect:both", "inspect:delegate", "inspect:implementation", "inspect:clean"}
SubmitEvents == {"submitDelegate", "submitImplementation"}
ConfirmEvents == {"confirmDelegate", "confirmImplementation"}
ImplementationEvents == {"readSlot", "readNonce", "build", "sign", "submitImplementation", "confirmImplementation"}

Has(log, events) == \E i \in DOMAIN log : log[i] \in events

RecoverRuns == {r \in Runs : run[r].kind = "recover"}

\* The action the recovery table of the design gives an issue vector; the table
\* has no row for a disrupted ownership with an incorrect implementation.
TableAction(v) ==
    CASE v.o /\ ~v.i -> "terminal"
      [] v.o /\ v.i -> "unspecified"
      [] v.d /\ v.i -> "delegateThenImplementation"
      [] v.d -> "delegate"
      [] v.i -> "implementation"
      [] OTHER -> "none"

\* The action a started run stands for: handleVerify repairs nothing, handleRecover
\* repairs what its flags name.
SelectedAction(rr) ==
    CASE rr.kind = "verify" -> "none"
      [] rr.capD /\ rr.capI -> "delegateThenImplementation"
      [] rr.capD -> "delegate"
      [] rr.capI -> "implementation"
      [] OTHER -> "none"

\* C1: for each issue vector the orchestrator selects exactly the action of the
\* recovery table: every run that was started on a vector does what the table
\* says for that vector, and on a vector the table calls terminal (ownership
\* disrupted, implementation correct) no run is started and the modal offers no
\* repair.
C1_RecoveryTableCoverage ==
    /\ \A r \in Runs :
          (run[r].kind # "none" /\ TableAction(run[r].vec) # "unspecified")
              => /\ TableAction(run[r].vec) # "terminal"
                 /\ SelectedAction(run[r]) = TableAction(run[r].vec)
    /\ \A s \in Active :
          (showRecoveryModal[s] /\ TableAction(IssueVector(s)) = "terminal") => ~RestoreOffered(s)

Unrecoverable(v) == v.d /\ ~v.i /\ v.o

\* C2: on the issue vector (delegate incorrect, implementation correct, ownership
\* disrupted) the modal shows the unrecoverable state, and no run started on that
\* vector submits a repair transaction.
C2_UnrecoverableNeverRepaired ==
    /\ \A s \in Active :
          (showRecoveryModal[s] /\ Unrecoverable(IssueVector(s)))
              => (isUnrecoverable(s) /\ ~RestoreOffered(s))
    /\ \A r \in RecoverRuns :
          Unrecoverable(run[r].vec) => ~Has(run[r].log, SubmitEvents)

\* C3: with both flags set, handleRecover has the delegate repair submitted and
\* confirmed before it reads for, builds, signs or submits the implementation
\* repair, and in the step log a delegate-repair entry never follows an
\* implementation-repair entry.
C3_DelegateBeforeImplementation ==
    /\ \A r \in RecoverRuns :
          run[r].capD =>
             \A j \in DOMAIN run[r].log :
                run[r].log[j] \in ImplementationEvents
                   => \E h, i \in 1..(j - 1) :
                         /\ h < i
                         /\ run[r].log[h] = "submitDelegate"
                         /\ run[r].log[i] = "confirmDelegate"
    /\ \A r \in RecoverRuns :
          (run[r].capD /\ run[r].pc \in {"iSlot", "iNonce", "iOwner", "iAccount", "iSign", "iFetch", "iWait", "iInspect"})
             => (Has(run[r].log, {"confirmDelegate"}) /\ tx[r].op # "resetDelegate")
    /\ \A s \in Active : \A i, j \in DOMAIN steps[s] :
          (steps[s][i].phase = "impl" /\ steps[s][j].phase = "delegate") => j < i

C3_Witness ==
    \E r \in RecoverRuns :
        /\ run[r].capD /\ run[r].capI
        /\ Has(run[r].log, {"submitImplementation"})
        /\ \E i, j \in DOMAIN steps[sessOf[r]] :
              /\ i < j
              /\ steps[sessOf[r]][i].phase = "delegate" /\ steps[sessOf[r]][i].by = r
              /\ steps[sessOf[r]][j].phase = "impl" /\ steps[sessOf[r]][j].by = r

\* C4: once the inspection after the delegate repair has seen the delegate still
\* incorrect, handleRecover does not go on to the implementation repair.
C4_NoImplementationRepairOnIncorrectDelegate ==
    \A r \in RecoverRuns : \A i, j \in DOMAIN run[r].log :
        (i < j /\ run[r].log[i] \in {"inspect:delegate", "inspect:both"})
            => run[r].log[j] \notin ImplementationEvents

\* C5: in every handleRecover run a confirmed repair transaction is followed at
\* once by an inspection (or by the failure of the run), and between the
\* submission of a repair and any later submission or the success report lies an
\* inspection.
C5_InspectAfterEveryRepair ==
    \A r \in RecoverRuns :
        /\ \A i \in DOMAIN run[r].log :
              (run[r].log[i] \in ConfirmEvents /\ i < Len(run[r].log))
                 => run[r].log[i + 1] \in InspectEvents \cup {"fail"}
        /\ \A i, j \in DOMAIN run[r].log :
              (i < j /\ run[r].log[i] \in SubmitEvents /\ run[r].log[j] \in SubmitEvents \cup {"success"})
                 => \E k \in (i + 1)..(j - 1) : run[r].log[k] \in InspectEvents

C5_Witness ==
    \E r \in RecoverRuns :
        /\ run[r].pc = "done"
        /\ Has(run[r].log, {"confirmDelegate"})
        /\ Has(run[r].log, {"confirmImplementation"})

\* C6: an error of a run is recorded on the step that was active when it
\* occurred: no step is appended for it, and the run stops there.
C6_ErrorOnActiveStep ==
    \A s \in Active : \A i \in DOMAIN steps[s] :
        steps[s][i].error => steps[s][i].phase # "failed"

RepairPhases == {"delegate", "impl"}

StatusPhase(status) ==
    CASE status \in {"Resetting delegate to relayer...", "Waiting for delegate reset transaction...", "Successfully reset delegate"} -> "delegate"
      [] status \in {"Resetting implementation to correct version...", "Waiting for implementation reset transaction...", "Successfully reset implementation"} -> "impl"
      [] OTHER -> "other"

\* C7: each repair step of a run has exactly one entry in the log, and the
\* progress of the repair is written to that entry: an entry of a repair step is
\* only updated by the run that appended it, with that step's statuses, and a run
\* that waits for or has confirmed its repair transaction finds its own entry
\* carrying that progress.
C7_OneEntryPerRepairStep ==
    /\ \A s \in Active : \A i \in DOMAIN steps[s] :
          steps[s][i].phase \in RepairPhases
             => /\ steps[s][i].upd = steps[s][i].by
                /\ StatusPhase(steps[s][i].status) = steps[s][i].phase
    /\ \A s \in Active : \A i, j \in DOMAIN steps[s] :
          (steps[s][i].phase \in RepairPhases /\ steps[s][i].phase = steps[s][j].phase /\ steps[s][i].by = steps[s][j].by)
             => i = j
    /\ \A r \in RecoverRuns :
          /\ run[r].pc = "dWait"
                => \E i \in DOMAIN steps[sessOf[r]] :
                      /\ steps[sessOf[r]][i].by = r
                      /\ steps[sessOf[r]][i].status = "Waiting for delegate reset transaction..."
          /\ run[r].pc = "iWait"
                => \E i \in DOMAIN steps[sessOf[r]] :
                      /\ steps[sessOf[r]][i].by = r
                      /\ steps[sessOf[r]][i].status = "Waiting for implementation reset transaction..."

\* C8: at most one handleVerify or handleRecover run of a session is in flight.
C8_SingleFlow ==
    \A s \in Active : Cardinality({r \in Runs : sessOf[r] = s /\ InFlight(r)}) <= 1

BuildStep(r) == run[r].pc = "iAccount" /\ run'[r].pc = "iSign"

ReadStep(r) == run[r].pc = "iNonce" /\ run'[r].pc = "iOwner"

\* C10 as stated: the nonce bound into a commitment is the tracker's current
\* value at the moment the commitment is built.
C10_NonceCurrentAtBuild ==
    [][\A r \in Runs : BuildStep(r) => run'[r].commit.nonce = trackerNonce]_vars

\* C10, amended: the nonce bound into a commitment is the value the same run read
\* from the tracker, which was the tracker's current value at the read; the read
\* comes after the confirmation and inspection of the run's delegate repair, and
\* the run takes no mutating step between the read and the build.  At the build
\* the nonce differs from the tracker's value only if a set-implementation
\* transaction with that nonce was accepted in between.
C10_NonceReadInSameAttempt ==
    [][\A r \in Runs :
          /\ ReadStep(r) =>
                /\ run'[r].nonce = trackerNonce
                /\ run[r].capD => (Has(run[r].log, {"confirmDelegate"}) /\ Has(run[r].log, InspectEvents))
                /\ tx[r].st = "none"
          /\ BuildStep(r) =>
                /\ run'[r].commit.nonce = run[r].nonce
                /\ run[r].log[Len(run[r].log)] = "readNonce"
                /\ tx[r].st = "none"
                /\ run'[r].commit.nonce # trackerNonce
                      => (run'[r].commit.nonce < trackerNonce /\ acceptedAt[run'[r].commit.nonce] = 1)]_vars

C10_Witness ==
    \E r \in RecoverRuns :
        /\ run[r].pc = "iSign"
        /\ run[r].capD
        /\ run[r].commit.nonce = 1
        /\ trackerNonce = 1

PendingImplementation(r) == tx[r].st = "pending" /\ tx[r].op = "resetImplementation"

Shape(log) == [i \in DOMAIN log |-> IF log[i] \in InspectEvents THEN "inspect" ELSE log[i]]

IsPrefix(a, b) == Len(a) <= Len(b) /\ \A i \in DOMAIN a : a[i] = b[i]

\* A run's history follows the scenario: it is a beginning of it, perhaps cut
\* short by the failure of the run.
Follows(log, scenario) ==
    \/ IsPrefix(Shape(log), scenario)
    \/ /\ Len(log) > 0 /\ log[Len(log)] = "fail"
       /\ IsPrefix(SubSeq(Shape(log), 1, Len(log) - 1), scenario)

ScenarioC == <<"readSlot", "readNonce", "build", "sign", "submitImplementation", "confirmImplementation", "inspect", "success">>

ScenarioB == <<"submitDelegate", "confirmDelegate", "inspect", "success">>

OnlyImplementation(v) == ~v.d /\ v.i /\ ~v.o

OnlyDelegate(v) == v.d /\ ~v.i /\ ~v.o

\* The inspection a run ended with.
LastInspection(r) == run[r].log[Len(run[r].log) - 1]

\* The scenario's setting: the one overwrite that made the fault, and no other
\* recovery run on the account.
Undisturbed(r) == disruptions <= 1 /\ \A q \in Runs \ {r} : run[q].kind # "recover"

C14_AtomicUpgrade ==
    /\ \A i \in DOMAIN upTxs :
          /\ upTxs[i].auth /\ upTxs[i].init
          /\ upTxs[i].signature # NoSignature
    /\ \A i, j \in DOMAIN upTxs : upTxs[i].attempt = upTxs[j].attempt => i = j

ReceiptEvents == {"receipt:success", "receipt:reverted"}

\* C15: an upgrade whose transaction's receipt is not a success is not reported
\* complete: no completion report, no onUpgradeComplete, isUpgraded false.
C15_FailureIsFatal ==
    /\ Has(up.log, {"complete"}) => Has(up.log, {"receipt:success"})
    /\ Has(up.log, {"receipt:reverted"}) => (~wm.isUpgraded /\ ~Has(up.log, {"complete"}))
    /\ wm.completions > 0 => \E i \in DOMAIN upTxs : upTxs[i].auth /\ upTxs[i].st = "success"

\* C16: the completion report of an upgrade run comes after the confirmation of
\* the transaction, then the sight of code at the EOA, then the isOwnerAddress
\* read returning true, in this order.
C16_ThreeConfirmations ==
    \A k \in DOMAIN up.log :
        up.log[k] = "complete" =>
            \E a, b, c \in 1..(k - 1) :
                /\ a < b /\ b < c
                /\ up.log[a] \in ReceiptEvents
                /\ up.log[b] = "code:present"
                /\ up.log[c] = "owner:true"

UpgradeOffered == wm.account /\ ~wm.isUpgraded /\ ~wm.loading

C18_RawUnprefixedSignature ==
    up.signature # NoSignature =>
        /\ up.signature.scheme = "raw"
        /\ up.signature.payload = createInitializeHash(EIP7702PROXY_TEMPLATE_ADDRESS, up.initArgs)

\* C19: the EOA's private key is nowhere but in the account construction and in
\* signing calls: not in a log, not kept on an object.
C19_KeyStaysInside == keyPlaces \subseteq {"construction", "signing"}

DiffersIn(a, b) == {f \in DOMAIN a : a[f] # b[f]}

C30_DelegateClassification ==
    (probe.fn = "classify" /\ probe.out # <<>>) =>
        LET b == probe.in
            designator == /\ Len(b) = 4
                          /\ b[1] \in {"ef", "EF"} /\ b[2] = "01" /\ b[3] = "00"
                          /\ b[4] \in {"proxytemplate", "proxyTemplate"}
        IN  /\ probe.out[1] = ~designator
            /\ b = <<>> => probe.out[1]

C30_Witness ==
    /\ probe.fn = "classify"
    /\ probe.in = <<"EF", "01", "00", "proxytemplate">>
    /\ probe.out = <<FALSE>>

\* A step of session s that inspects the account: the page's own inspection, or
\* the checkState of a handleRecover run.
InspectionOf(s) ==
    \/ ParentInspect(s)
    \/ \E r \in Runs :
          /\ sessOf[r] = s
          /\ RecoverDelegateInspect(r) \/ RecoverImplementationInspect(r)

\* C22: an inspection changes nothing on the ledger (the account, the tracker,
\* the transactions), and a second inspection right after it, with no mutation
\* in between, reports the same bytecode, the same implementation address and the
\* same classification.
C22_InspectionReadOnlyIdempotent ==
    [][\A s \in Active :
          InspectionOf(s) =>
              /\ ledgerVars' = ledgerVars
              /\ tx' = tx
              /\ LET again == onStateChange(page'[s], getCode(code'), slot')
                 IN  /\ again.bytecode = page'[s].bytecode
                     /\ again.slotValue = page'[s].slotValue
                     /\ delegateIncorrect(again.bytecode) = delegateIncorrect(page'[s].bytecode)
                     /\ implementationIncorrect(again.slotValue) = implementationIncorrect(page'[s].slotValue)]_vars

C22_Witness ==
    \E r \in RecoverRuns :
        /\ Has(run[r].log, {"inspect:delegate", "inspect:both"})
        /\ run[r].pc = "iSlot"
        /\ page[sessOf[r]].bytecode = getCode(code)
        /\ tx[r].st = "none"

OwnershipTerminal(v) == v.o /\ ~v.i

\* C23: while the page sees the ownership disrupted and the implementation
\* correct, with the delegate correct or not, an open modal shows the terminal
\* state and offers no "Restore Account", and no handleRecover run was started on
\* such a vector.
C23_OwnershipTerminalNoRepair ==
    /\ \A s \in Active :
          (showRecoveryModal[s] /\ OwnershipTerminal(IssueVector(s)))
              => (isUnrecoverable(s) /\ ~RestoreOffered(s))
    /\ \A r \in RecoverRuns : ~OwnershipTerminal(run[r].vec)

Count(log, event) == Cardinality({i \in DOMAIN log : log[i] = event})

\* C24: a handleRecover run submits at most one delegate repair and at most one
\* implementation repair; every submitted commitment was read, built and signed
\* in the run that submits it, before the submission; and a run that failed has
\* stopped: the failure is the last thing it did.
C24_NoRetryInRecovery ==
    \A r \in RecoverRuns :
        /\ Count(run[r].log, "submitDelegate") <= 1
        /\ Count(run[r].log, "submitImplementation") <= 1
        /\ \A j \in DOMAIN run[r].log :
              run[r].log[j] = "submitImplementation" =>
                  \E a, b, c \in 1..(j - 1) :
                      /\ a < b /\ b < c
                      /\ run[r].log[a] = "readNonce"
                      /\ run[r].log[b] = "build"
                      /\ run[r].log[c] = "sign"
        /\ \A j \in DOMAIN run[r].log :
              run[r].log[j] = "fail" => (j = Len(run[r].log) /\ run[r].pc = "failed")
        /\ run[r].pc = "failed" => run[r].commit = NoCommit

C24_Witness ==
    \E r, q \in RecoverRuns :
        /\ r # q
        /\ run[r].pc = "failed"
        /\ Has(run[r].log, {"submitImplementation"})
        /\ Has(run[q].log, {"submitImplementation"})
        /\ Count(run[q].log, "readNonce") = 1

\* C25: the repair steps of a handleRecover run are those the account's state on
\* the ledger calls for at the moment the run starts: the flags the run works
\* with are the classification of the bytecode and of the implementation slot as
\* they are then.
C25_RepairFromFreshInspection ==
    [][\A s \in Active, r \in Runs :
          handleRecover(s, r) =>
              /\ run'[r].capD = delegateIncorrect(getCode(code))
              /\ run'[r].capI = implementationIncorrect(slot)]_vars

\* C26: right after handleVerify starts on a healthy account the step log is
\* empty, and right after handleRecover starts the log holds the entries that run
\* has just added and nothing else: the starting step, followed by the first
\* repair step or by the success report.
C26_StepLogClearedAtStart ==
    [][\A s \in Active, r \in Runs :
          /\ handleVerify(s, r) => steps'[s] = <<>>
          /\ handleRecover(s, r) =>
                /\ Len(steps'[s]) = 2
                /\ steps'[s][1].phase = "start"
                /\ steps'[s][2].phase \in {"delegate", "impl", "final"}
                /\ \A i \in DOMAIN steps'[s] :
                      /\ steps'[s][i].by = r
                      /\ steps'[s][i].txHash = NoTx
                      /\ ~steps'[s][i].error]_vars

C26_Witness ==
    \E s \in Active, r \in Runs :
        /\ starts[s] = 2
        /\ run[r].kind = "verify" /\ run[r].pc = "vDeposit"
        /\ steps[s] = <<>>

\* C27: a handleRecover run whose repair transaction was confirmed does not fail
\* at the inspection that follows: the failure of checkState's reads does not
\* end the run in the catch block with "Recovery failed".
C27_InspectionFailureNotFatal ==
    \A r \in RecoverRuns :
        \A i \in DOMAIN run[r].log :
            (run[r].log[i] \in ConfirmEvents /\ i < Len(run[r].log))
                => ~(run[r].log[i + 1] = "fail" /\ run[r].pc = "failed")

RelayOperations == {"fund", "deposit", "userOp", "retrieve", "resetDelegate", "resetImplementation"}

\* C28: nothing the orchestrator does, and no transaction it had submitted,
\* takes a repaired delegate back: only an external overwrite changes a correct
\* delegate; a transaction is submitted only by a run that goes on, never by the
\* end of a run, and it is one of the relay's operations.
C28_NoRollback ==
    [][/\ (disruptions' = disruptions /\ code = EIP7702PROXY_TEMPLATE_ADDRESS)
            => code' = EIP7702PROXY_TEMPLATE_ADDRESS
       /\ \A r \in Runs :
            (tx'[r] # tx[r] /\ tx'[r].st = "pending")
                => /\ run'[r].pc \notin {"idle", "done", "failed"}
                   /\ tx'[r].op \in RelayOperations
                   /\ run'[r].kind = "recover" => tx'[r].op \in {"resetDelegate", "resetImplementation"}]_vars

C28_Witness ==
    \E r \in RecoverRuns :
        /\ run[r].pc = "failed"
        /\ Has(run[r].log, {"confirmDelegate"})
        /\ Has(run[r].log, {"sign"})
        /\ ~Has(run[r].log, {"submitImplementation"})
        /\ code = EIP7702PROXY_TEMPLATE_ADDRESS
        /\ slot = FOREIGN_1967_IMPLEMENTATION
        /\ \A q \in Runs : tx[q].st # "pending"

\* What an inspection of the EOA returns.
InspectEoa ==
    [d |-> delegateIncorrect(getCode(eoa.code)),
     i |-> implementationIncorrect(eoa.slot),
     o |-> ownershipDisruptedOf(IF eoa.owner THEN 1 ELSE 0)]

\* C29: once an upgrade run on a fresh EOA has completed (the component has
\* reported the upgrade, the script has run to its end), an inspection of the
\* EOA returns (false, false, false).
C29_ScenarioFreshUpgrade ==
    (wm.isUpgraded \/ Has(up.log, {"processComplete"})) => InspectEoa = NoVec

\* C31: the implementation address is the low 20 bytes of the slot word, and it
\* is classified as incorrect exactly when it is not the expected implementation
\* address in some case of the hex text; the upper 12 bytes have no part in it.
C31_ImplementationClassification ==
    (probe.fn = "implementation" /\ probe.out # <<>>) =>
        LET w == probe.in
            expected == {"newImplementation", "NEWIMPLEMENTATION", "newimplementation"}
        IN  /\ w # <<>> => (probe.out[1] = w[2] /\ probe.out[2] = (w[2] \notin expected))
            /\ w = <<>> => probe.out[2]

C31_Witness ==
    /\ probe.fn = "implementation"
    /\ probe.in = <<"ffffffffffffffffffffffff", "NEWIMPLEMENTATION">>
    /\ probe.out = <<"NEWIMPLEMENTATION", FALSE>>

\* C32: the owner index a run signs with, nextOwnerIndex - 1 as read, is an index
\* of the owner set: it is not negative, in the run's locals and in the
\* transaction the run has submitted.
C32_OwnerIndexValid ==
    \A r \in Runs :
        /\ run[r].ourOwnerIndex >= 0
        /\ tx[r].ownerIndex >= 0

\* C33: a click on "Transact using passkey" while a disruption flag is set opens
\* the recovery modal and does nothing else: no request, no transaction, no run,
\* and the step log, the busy flag and isVerified stay as they were.
C33_VerifyOnDisruptedOnlyOpensModal ==
    [][\A s \in Active :
          handleVerifyDisrupted(s) =>
              /\ showRecoveryModal'[s]
              /\ steps' = steps /\ verifying' = verifying /\ isVerified' = isVerified
              /\ tx' = tx /\ run' = run /\ starts' = starts
              /\ ledgerVars' = ledgerVars]_vars

C33_Witness ==
    \E s \in Active :
        /\ showRecoveryModal[s] /\ ~verifying[s]
        /\ isVerified[s]
        /\ steps[s] # <<>>
        /\ RecoverRuns = {}

\* C34: a handleRecover run that submitted a repair reports success only when
\* the last inspection it made saw the delegate and the implementation correct.
C34_SuccessOnlyWhenClean ==
    \A r \in RecoverRuns :
        (Has(run[r].log, {"success"}) /\ Has(run[r].log, SubmitEvents))
            => LastInspection(r) = "inspect:clean"

\* C35: when a handleVerify run has ended verified, every entry of the step log
\* is complete and carries no error (the success banner's condition), whether
\* the EntryPoint pre-funding step was taken or not.
C35_VerifiedStepsAllComplete ==
    \A r \in Runs :
        (run[r].kind = "verify" /\ run[r].pc = "done" /\ isVerified[sessOf[r]])
            => \A i \in DOMAIN steps[sessOf[r]] :
                  steps[sessOf[r]][i].isComplete /\ ~steps[sessOf[r]][i].error

\* C36: when a handleRecover run has ended with the success step, every entry of
\* the step log, the starting entry included, is complete and carries no error.
C36_RecoveredStepsAllComplete ==
    \A r \in RecoverRuns :
        (run[r].pc = "done" /\ \A q \in Runs \ {r} : run[q].kind # "recover")
            => \A i \in DOMAIN steps[sessOf[r]] :
                  steps[sessOf[r]][i].phase \in {"start", "delegate", "impl", "final"}
                      => (steps[sessOf[r]][i].isComplete /\ ~steps[sessOf[r]][i].error)

\* C37: the busy flag of a session, once set, is cleared again, and so is the
\* loading flag of the upgrade component; and while no run of a session is under
\* way its busy flag is clear.
C37_BusyFlagReleased ==
    /\ \A s \in Sessions : verifying[s] ~> ~verifying[s]
    /\ wm.loading ~> ~wm.loading
    /\ [](\A s \in Sessions :
            (\A r \in Runs : sessOf[r] = s => Finished(r)) => ~verifying[s])
    /\ [](up.pc \in {"idle", "done", "failed"} => ~wm.loading)

C37_Witness ==
    \E r \in Runs :
        /\ run[r].kind = "verify" /\ run[r].pc = "failed"
        /\ run[r].log[Len(run[r].log)] = "return"
        /\ ~verifying[sessOf[r]]

\* C38: under either value of useAnvil the chain the recovery component waits
\* and inspects on, and the chain id it binds into the commitment, are the chain
\* of the relay's wallet client.
C38_ChainConsistency ==
    (probe.fn = "chain" /\ probe.out # <<>>) =>
        /\ probe.out[1] = probe.out[3]
        /\ probe.out[2] = probe.out[3]

\* C38, the upgrade flow: once the component has submitted the upgrade it waits
\* for the receipt and reads the code on the chain the relayer submitted to.
C38_UpgradeChainConsistency ==
    (upgradePath = "component" /\ up.pc \in {"receipt", "code"}) =>
        upgradeReadChain = upgradeRelayerChain

\* C39: the relay makes at most one submission per request and none for an
\* operation it does not recognise; each operation the recovery client sends
\* ("fund", "resetDelegate", "resetImplementation") leads to exactly one
\* submission when nothing throws; an unsupported operation is answered 400
\* without a submission; a thrown submission error is answered 500.
C39_RelayDispatch ==
    (probe.fn = "relay" /\ probe.out # <<>>) =>
        LET operation == probe.in[1]
            fault == probe.in[2]
            status == probe.out[1]
            calls == probe.out[2]
        IN  /\ calls <= 1
            /\ (operation \in {"fund", "resetDelegate", "resetImplementation"} /\ fault = "none")
                  => (calls = 1 /\ status = 200)
            /\ (operation = "unknown" /\ fault = "none") => (status = 400 /\ calls = 0)
            /\ (fault = "submit" /\ calls = 1) => status = 500

\* C39, the part the relay keeps: at most one submission per request, none and
\* 400 for an operation outside its cases, 500 for a thrown error.
C39_RelayBounds ==
    (probe.fn = "relay" /\ probe.out # <<>>) =>
        /\ probe.out[2] <= 1
        /\ (probe.in[1] \notin {"fund", "upgradeEOA", "execute"} /\ probe.in[2] = "none")
              => (probe.out[1] = 400 /\ probe.out[2] = 0)
        /\ (probe.in[2] = "body" \/ (probe.in[2] = "submit" /\ probe.out[2] = 1)) => probe.out[1] = 500

====
